---- MODULE Spec2Model ----
(***************************************************************************)
(* A model of the dependency resolver and delivery service (postal), the   *)
(* archive extractor (vacation) and the checksum calculator (fs) of        *)
(* packit.                                                                 *)
(*                                                                         *)
(* Strings the code takes apart (version strings, constraint strings) are  *)
(* sequences of tokens; a token is one lexical unit of the string ("1",    *)
(* ".", "~>", " ", "-rc", ...).  The empty string is <<>>.                 *)
(***************************************************************************)
EXTENDS Integers, Sequences, FiniteSets, TLC

VARIABLES
    catalog,          \* buildpack.toml: the [[metadata.dependencies]] list, in file order
    defaultVersions,  \* buildpack.toml: [metadata.default-versions], id -> string ("" if none)
    malformed,        \* buildpack.toml is not valid toml
    resolved,         \* the last Resolve call: its arguments and what it returned
    pc,               \* Deliver: where the call is
    given,            \* Deliver: the dependency and platform path the caller passed
    deliverDep,       \* Deliver: its own copy of the dependency (the parameter)
    bundle,           \* Deliver: the stream the transport returned
    checksum,         \* Deliver: the checksum the validated reader was made with
    next,             \* Decompress: the number of the header to read next
    layer,            \* the file system under layerPath
    layerBefore,      \* the file system under layerPath when Deliver was called
    calls,            \* Deliver: the calls made to its collaborators, with their results
    returned,         \* Deliver: the error returned ("" for nil)
    tree,             \* the files the checksum calculator is pointed at: path -> file
    sumPc,            \* Sum and SumMultiple: where the call is
    sumArgs,          \* Sum and SumMultiple: the arguments of the call
    scratch,          \* SumMultiple: the temporary directory: path -> file
    tempDir,          \* SumMultiple: the temporary directory exists
    filesFromDir,     \* Sum: the regular files found by the walk, in walk order
    files,            \* getParallelChecksums: the channel of paths, and whether it is closed
    calculatedFiles,  \* getParallelChecksums: the channel of results
    workers,          \* the fileChecksumer goroutines: what each is doing
    checksumResults,  \* getParallelChecksums: the results pulled off the channel
    sumOut,           \* Sum and SumMultiple: what the call returned
    lastMultiple,     \* the SumMultiple call before this one: its paths and what it returned
    archive,          \* vacation: the archive Decompress is called on
    destination,      \* vacation: the file system under the destination directory
    destinationBefore,\* vacation: the destination when Decompress was called
    position,         \* vacation: the number of entries read so far
    handles,          \* vacation: the destination files opened and not closed
    vacationPc,       \* vacation: where the call of Decompress is
    vacationErr       \* vacation: the error Decompress returned ("" for nil)

resolveVars == <<catalog, defaultVersions, malformed, resolved>>

deliverVars == <<pc, given, deliverDep, bundle, checksum, next, layer, layerBefore,
                 calls, returned>>

sumVars == <<tree, sumPc, sumArgs, scratch, tempDir, filesFromDir, files,
             calculatedFiles, workers, checksumResults, sumOut, lastMultiple>>

vacationVars == <<archive, destination, destinationBefore, position, handles,
                  vacationPc, vacationErr>>

vars == <<catalog, defaultVersions, malformed, resolved,
          pc, given, deliverDep, bundle, checksum, next, layer, layerBefore,
          calls, returned,
          tree, sumPc, sumArgs, scratch, tempDir, filesFromDir, files,
          calculatedFiles, workers, checksumResults, sumOut, lastMultiple,
          archive, destination, destinationBefore, position, handles,
          vacationPc, vacationErr>>

(***************************************************************************)
(* Bounds                                                                  *)
(***************************************************************************)
MaxCatalog == 2

MaxWorkers == 2

MaxPaths == 2

(***************************************************************************)
(* Strings                                                                 *)
(***************************************************************************)
EmptyString == <<>>

DefaultString == <<"default">>

Wildcard == <<"*">>

Digits == {"0", "1", "2", "3"}

DigitVal(t) ==
    CASE t = "0" -> 0
      [] t = "1" -> 1
      [] t = "2" -> 2
      [] t = "3" -> 3

IsX(t) == t \in {"x", "X", "*"}

Operators == {"=", "~", "^"}

PrereleaseTokens == {"-rc"}

BuildTokens == {"+b"}

RECURSIVE Count(_, _)
Count(s, t) ==
    IF s = <<>> THEN 0
    ELSE (IF Head(s) = t THEN 1 ELSE 0) + Count(Tail(s), t)

RECURSIVE Remove(_, _)
Remove(s, t) ==
    IF s = <<>> THEN <<>>
    ELSE IF Head(s) = t THEN Remove(Tail(s), t)
    ELSE <<Head(s)>> \o Remove(Tail(s), t)

RECURSIVE TrimLeft(_)
TrimLeft(s) ==
    IF s # <<>> /\ Head(s) = " " THEN TrimLeft(Tail(s)) ELSE s

RECURSIVE TrimRight(_)
TrimRight(s) ==
    IF s # <<>> /\ s[Len(s)] = " " THEN TrimRight(SubSeq(s, 1, Len(s) - 1)) ELSE s

(***************************************************************************)
(* github.com/Masterminds/semver/v3, as Resolve uses it: NewVersion,       *)
(* NewConstraint, Constraints.Check, Version.GreaterThan.                  *)
(***************************************************************************)
NoVersion == [ok |-> FALSE, major |-> 0, minor |-> 0, patch |-> 0, pre |-> ""]

Version(ma, mi, pa, pre) == [ok |-> TRUE, major |-> ma, minor |-> mi, patch |-> pa, pre |-> pre]

StripV(s) == IF s # <<>> /\ Head(s) = "v" THEN Tail(s) ELSE s

StripBuild(s) ==
    IF s # <<>> /\ s[Len(s)] \in BuildTokens THEN SubSeq(s, 1, Len(s) - 1) ELSE s

PreOf(s) == IF s # <<>> /\ s[Len(s)] \in PrereleaseTokens THEN s[Len(s)] ELSE ""

StripPre(s) ==
    IF s # <<>> /\ s[Len(s)] \in PrereleaseTokens THEN SubSeq(s, 1, Len(s) - 1) ELSE s

\* the numeric core of a version: part, part.part or part.part.part
IsCore(s, parts) ==
    /\ Len(s) \in {1, 3, 5}
    /\ \A i \in 1..Len(s) : IF i % 2 = 1 THEN s[i] \in parts ELSE s[i] = "."

\* semver.NewVersion: v?N(.N)?(.N)?(-prerelease)?(+build)?, missing parts are 0
NewVersion(s) ==
    LET body == StripPre(StripBuild(StripV(s)))
        pre  == PreOf(StripBuild(s))
    IN IF ~IsCore(body, Digits) THEN NoVersion
       ELSE Version(DigitVal(body[1]),
                    IF Len(body) >= 3 THEN DigitVal(body[3]) ELSE 0,
                    IF Len(body) >= 5 THEN DigitVal(body[5]) ELSE 0,
                    pre)

\* Version.Compare: major, minor, patch, then a prerelease sorts before the release
Compare(v, w) ==
    IF v.major # w.major THEN (IF v.major < w.major THEN -1 ELSE 1)
    ELSE IF v.minor # w.minor THEN (IF v.minor < w.minor THEN -1 ELSE 1)
    ELSE IF v.patch # w.patch THEN (IF v.patch < w.patch THEN -1 ELSE 1)
    ELSE IF v.pre = w.pre THEN 0
    ELSE IF v.pre = "" THEN 1
    ELSE IF w.pre = "" THEN -1
    ELSE 0

LessThan(v, w) == Compare(v, w) < 0

GreaterThan(v, w) == Compare(v, w) > 0

NoConstraint ==
    [ok |-> FALSE, op |-> "", con |-> NoVersion,
     dirty |-> FALSE, minorDirty |-> FALSE, patchDirty |-> FALSE]

\* semver.NewConstraint for a single comparison: \s*(op)?\s*(version with wildcards)\s*
NewConstraint(c) ==
    LET t    == TrimRight(TrimLeft(c))
        op   == IF t # <<>> /\ Head(t) \in Operators THEN Head(t) ELSE ""
        ver  == TrimLeft(IF op = "" THEN t ELSE Tail(t))
        body == StripPre(StripBuild(StripV(ver)))
        pre  == PreOf(StripBuild(ver))
        n    == Len(body)
    IN IF ~IsCore(body, Digits \cup {"x", "X", "*"}) THEN NoConstraint
       ELSE IF IsX(body[1])
       THEN [ok |-> TRUE, op |-> op, con |-> Version(0, 0, 0, pre),
             dirty |-> TRUE, minorDirty |-> FALSE, patchDirty |-> FALSE]
       ELSE IF n < 3 \/ IsX(body[3])
       THEN [ok |-> TRUE, op |-> op, con |-> Version(DigitVal(body[1]), 0, 0, pre),
             dirty |-> TRUE, minorDirty |-> TRUE, patchDirty |-> FALSE]
       ELSE IF n < 5 \/ IsX(body[5])
       THEN [ok |-> TRUE, op |-> op,
             con |-> Version(DigitVal(body[1]), DigitVal(body[3]), 0, pre),
             dirty |-> TRUE, minorDirty |-> FALSE, patchDirty |-> TRUE]
       ELSE [ok |-> TRUE, op |-> op,
             con |-> Version(DigitVal(body[1]), DigitVal(body[3]), DigitVal(body[5]), pre),
             dirty |-> FALSE, minorDirty |-> FALSE, patchDirty |-> FALSE]

\* a prerelease version never satisfies a constraint that names no prerelease
PrereleaseExcluded(v, c) == v.pre # "" /\ c.con.pre = ""

constraintTilde(v, c) ==
    IF PrereleaseExcluded(v, c) THEN FALSE
    ELSE IF LessThan(v, c.con) THEN FALSE
    ELSE IF c.con.major = 0 /\ c.con.minor = 0 /\ c.con.patch = 0
            /\ ~c.minorDirty /\ ~c.patchDirty THEN TRUE
    ELSE IF v.major # c.con.major THEN FALSE
    ELSE IF v.minor # c.con.minor /\ ~c.minorDirty THEN FALSE
    ELSE TRUE

constraintTildeOrEqual(v, c) ==
    IF PrereleaseExcluded(v, c) THEN FALSE
    ELSE IF c.dirty THEN constraintTilde(v, c)
    ELSE Compare(v, c.con) = 0

constraintCaret(v, c) ==
    IF PrereleaseExcluded(v, c) THEN FALSE
    ELSE IF LessThan(v, c.con) THEN FALSE
    ELSE IF c.con.major > 0 \/ c.minorDirty THEN v.major = c.con.major
    ELSE IF v.major > 0 THEN FALSE
    ELSE IF c.con.minor > 0 \/ c.patchDirty THEN v.minor = c.con.minor
    ELSE c.con.patch = v.patch

Check(c, v) ==
    CASE c.op = "~" -> constraintTilde(v, c)
      [] c.op = "^" -> constraintCaret(v, c)
      [] OTHER      -> constraintTildeOrEqual(v, c)

(***************************************************************************)
(* postal.Service.Resolve                                                  *)
(***************************************************************************)
Ids == {"some-entry", "some-other-entry"}

Stacks == {"some-stack", "other-stack"}

Dependency(id, stacks, uri, sha, version) ==
    [ID |-> id, Stacks |-> stacks, URI |-> uri, SHA256 |-> sha, Version |-> version]

NoDependency == Dependency("", {}, "", "", EmptyString)

V3(a, b, c) == <<a, ".", b, ".", c>>

\* the dependency entries a buildpack.toml of the model may list
Entries ==
    { Dependency("some-entry", {"some-stack"}, "uri-010", "sha-010", V3("0", "1", "0")),
      Dependency("some-entry", {"some-stack"}, "uri-020", "sha-020", V3("0", "2", "0")),
      Dependency("some-entry", {"some-stack"}, "uri-100", "sha-100", V3("1", "0", "0")),
      Dependency("some-entry", {"some-stack", "other-stack"}, "uri-123", "sha-123",
                 V3("1", "2", "3")),
      Dependency("some-entry", {"some-stack"}, "uri-130rc", "sha-130rc",
                 V3("1", "3", "0") \o <<"-rc">>),
      Dependency("some-entry", {"some-stack"}, "uri-123b", "sha-123b",
                 V3("1", "2", "3") \o <<"+b">>),
      Dependency("some-entry", {"some-stack"}, "uri-bad", "sha-bad",
                 <<"this is super not semver">>),
      Dependency("some-other-entry", {"some-stack"}, "uri-124", "sha-124", V3("1", "2", "4")),
      Dependency("some-entry", {"other-stack"}, "uri-125", "sha-125", V3("1", "2", "5")) }

\* the default versions a buildpack.toml of the model may declare
DefaultStrings == { V3("1", "2", "x") }

\* the version strings Resolve is called with
Requests ==
    { EmptyString, DefaultString, Wildcard,
      V3("1", "2", "*"), V3("1", "2", "3"), V3("3", "3", "3"),
      <<"~>", " ", "1", ".", "1">>, <<"~>", " ", "1">>,
      <<"~>", " ", "0", ".", "1">>, <<"~>", " ", "0">>,
      <<"~>", " ", "1", ".", "2", ".", "0">>, <<"~>", " ", "0", ".", "0", ".", "0">>,
      <<"1", ".", "2", ".", "0", "~>">>,
      <<"this-is-not-semver">> }

stacksInclude(stacks, stack) == stack \in stacks

\* parseBuildpack(path, id): the dependencies, the default version of id, the error
parseBuildpack(id) ==
    [dependencies   |-> catalog,
     defaultVersion |-> defaultVersions[id],
     err            |-> malformed]

\* the declared default is never consulted: "" and "default" are "*"
NormalizeVersionIgnoresDefault(version, defaultVersion) ==
    IF version \in {EmptyString, DefaultString} THEN Wildcard ELSE version

\* lines 65-74: "" is "default"; "default" is the declared default, or "*"
NormalizeVersion(version, defaultVersion) ==
    LET v == IF version = EmptyString THEN DefaultString ELSE version
    IN IF v = DefaultString
       THEN (IF defaultVersion # EmptyString THEN defaultVersion ELSE Wildcard)
       ELSE v

\* lines 76-89: the pessimistic operator; the regexp `~>` matches anywhere in the
\* string and ReplaceAllString removes every match
RewritePessimistic(version) ==
    IF Count(version, "~>") > 0
    THEN LET res   == Remove(version, "~>")
             parts == Count(res, ".") + 1
         IN IF parts = 3 THEN <<"~">> \o res ELSE <<"^">> \o res
    ELSE version

Outcome(err, dep, id, constraint, supported) ==
    [err |-> err, dependency |-> dep, id |-> id,
     constraint |-> constraint, supported |-> supported]

\* the less function with the comparison turned round: the sort is ascending
compatibleLessAscending(a, b) == LessThan(NewVersion(a.Version), NewVersion(b.Version))

\* the less function holding for equal versions too
compatibleLessOrEqual(a, b) == Compare(NewVersion(a.Version), NewVersion(b.Version)) >= 0

\* lines 124-128: the less function handed to sort.Slice
compatibleLess(a, b) == GreaterThan(NewVersion(a.Version), NewVersion(b.Version))

\* sort.Slice on a slice of fewer than 12 elements is an insertion sort
RECURSIVE InsertSorted(_, _)
InsertSorted(s, x) ==
    IF s # <<>> /\ compatibleLess(x, s[Len(s)])
    THEN InsertSorted(SubSeq(s, 1, Len(s) - 1), x) \o <<s[Len(s)]>>
    ELSE s \o <<x>>

RECURSIVE SortSlice(_)
SortSlice(s) ==
    IF s = <<>> THEN <<>>
    ELSE InsertSorted(SortSlice(SubSeq(s, 1, Len(s) - 1)), s[Len(s)])

\* the filter without its stack test
MatchesAnyStack(dependency, id, stack) == dependency.ID = id

\* line 99: the entries the loop does not skip
Matches(dependency, id, stack) ==
    ~(dependency.ID # id \/ ~stacksInclude(dependency.Stacks, stack))

\* a version that does not parse is let through
InvalidVersionNever(sVersion) == FALSE

\* lines 103-106: semver.NewVersion returned an error
InvalidVersion(sVersion) == ~sVersion.ok

\* lines 97-131: the loop over the dependencies, then the choice
RECURSIVE ResolveLoop(_, _, _, _, _, _, _)
ResolveLoop(dependencies, id, stack, version, constraint, compatibleVersions, supportedVersions) ==
    IF dependencies = <<>>
    THEN IF Len(compatibleVersions) = 0
         THEN Outcome("no compatible versions", NoDependency, id, version, supportedVersions)
         ELSE Outcome("", SortSlice(compatibleVersions)[1], "", EmptyString, <<>>)
    ELSE LET dependency == Head(dependencies)
             sVersion   == NewVersion(dependency.Version)
         IN IF ~Matches(dependency, id, stack)
            THEN ResolveLoop(Tail(dependencies), id, stack, version, constraint,
                             compatibleVersions, supportedVersions)
            ELSE IF InvalidVersion(sVersion)
            THEN Outcome("Invalid Semantic Version", NoDependency, "", EmptyString, <<>>)
            ELSE ResolveLoop(Tail(dependencies), id, stack, version, constraint,
                             IF Check(constraint, sVersion)
                             THEN Append(compatibleVersions, dependency)
                             ELSE compatibleVersions,
                             Append(supportedVersions, dependency.Version))

Resolve(id, requested, stack) ==
    LET parsed     == parseBuildpack(id)
        version    == RewritePessimistic(NormalizeVersion(requested, parsed.defaultVersion))
        constraint == NewConstraint(version)
    IN IF parsed.err
       THEN Outcome("failed to parse buildpack.toml", NoDependency, "", EmptyString, <<>>)
       ELSE IF ~constraint.ok
       THEN Outcome("improper constraint", NoDependency, "", EmptyString, <<>>)
       ELSE ResolveLoop(parsed.dependencies, id, stack, version, constraint, <<>>, <<>>)

(***************************************************************************)
(* Path strings: a sequence of names and "/" tokens.                       *)
(***************************************************************************)
Dir(p) == IF p = <<>> THEN <<>> ELSE SubSeq(p, 1, Len(p) - 1)

\* strings.Split(name, "/")
RECURSIVE Split(_)
Split(s) ==
    IF s = <<>> THEN <<"">>
    ELSE IF Head(s) = "/" THEN <<"">> \o Split(Tail(s))
    ELSE IF Len(s) = 1 THEN <<s[1]>>
    ELSE <<s[1]>> \o Split(Tail(Tail(s)))

\* filepath.Join(destination, names...): the path below the destination, cleaned
RECURSIVE Clean(_, _)
Clean(done, names) ==
    IF names = <<>> THEN done
    ELSE IF Head(names) \in {"", "."} THEN Clean(done, Tail(names))
    ELSE IF Head(names) = ".." THEN Clean(Dir(done), Tail(names))
    ELSE Clean(Append(done, Head(names)), Tail(names))

Join(names) == Clean(<<>>, names)

(***************************************************************************)
(* The file system under the destination directory: a function from the    *)
(* paths that exist (sequences of names below the destination, <<>> the    *)
(* destination itself) to what is there.  A symbolic link is never         *)
(* followed as a directory: every link target of the model names a regular *)
(* file or nothing.                                                        *)
(***************************************************************************)
Node(kind, mode, content) == [kind |-> kind, mode |-> mode, content |-> content]

ModePerm == "0777"

EmptyDestination == (<<>> :> Node("dir", "0755", <<>>))

Exists(fs, p) == p \in DOMAIN fs

IsDir(fs, p) == Exists(fs, p) /\ fs[p].kind = "dir"

Put(fs, p, node) == [q \in DOMAIN fs \cup {p} |-> IF q = p THEN node ELSE fs[q]]

FsResult(fs, err) == [fs |-> fs, err |-> err]

\* os.MkdirAll(path, perm): every missing directory of the path is created with perm
RECURSIVE MkdirAllFrom(_, _, _, _)
MkdirAllFrom(fs, p, perm, i) ==
    IF i > Len(p) THEN FsResult(fs, "")
    ELSE LET prefix == SubSeq(p, 1, i)
         IN IF ~Exists(fs, prefix)
            THEN MkdirAllFrom(Put(fs, prefix, Node("dir", perm, <<>>)), p, perm, i + 1)
            ELSE IF fs[prefix].kind # "dir" THEN FsResult(fs, "not a directory")
            ELSE MkdirAllFrom(fs, p, perm, i + 1)

MkdirAll(fs, p, perm) == MkdirAllFrom(fs, p, perm, 0)

\* the missing directories of the path are created before the file is opened
OpenFileAndCopyMakingParents(fs, p, mode, content) ==
    LET d == MkdirAll(fs, Dir(p), ModePerm)
    IN IF p = <<>> \/ d.err # "" THEN FsResult(fs, "no such file or directory")
       ELSE IF ~Exists(d.fs, p) THEN FsResult(Put(d.fs, p, Node("file", mode, content)), "")
       ELSE IF d.fs[p].kind = "file"
       THEN FsResult(Put(d.fs, p, Node("file", d.fs[p].mode, content)), "")
       ELSE FsResult(fs, "is a directory")

\* os.OpenFile(path, O_CREATE|O_TRUNC, mode) and the copy of the content: the
\* directory of the path must exist; an existing file is emptied and keeps its
\* mode; a link is followed to the file it names
OpenFileAndCopy(fs, p, mode, content) ==
    IF p = <<>> \/ ~IsDir(fs, Dir(p)) THEN FsResult(fs, "no such file or directory")
    ELSE IF ~Exists(fs, p) THEN FsResult(Put(fs, p, Node("file", mode, content)), "")
    ELSE IF fs[p].kind = "dir" THEN FsResult(fs, "is a directory")
    ELSE IF fs[p].kind = "file"
    THEN FsResult(Put(fs, p, Node("file", fs[p].mode, content)), "")
    ELSE LET target == Clean(Dir(p), Split(fs[p].content))
         IN IF Exists(fs, target) /\ fs[target].kind = "file"
            THEN FsResult(Put(fs, target, Node("file", fs[target].mode, content)), "")
            ELSE IF ~Exists(fs, target)
            THEN FsResult(Put(fs, target, Node("file", mode, content)), "")
            ELSE FsResult(fs, "is a directory")

\* os.Symlink(oldname, newname)
Symlink(fs, linkname, p) ==
    IF linkname = <<>> THEN FsResult(fs, "no such file or directory")
    ELSE IF Exists(fs, p) THEN FsResult(fs, "file exists")
    ELSE IF ~IsDir(fs, Dir(p)) THEN FsResult(fs, "no such file or directory")
    ELSE FsResult(Put(fs, p, Node("symlink", ModePerm, linkname)), "")

(***************************************************************************)
(* vacation: the archives                                                  *)
(***************************************************************************)
Header(name, typeflag, mode, content, linkname) ==
    [Name |-> name, Typeflag |-> typeflag, Mode |-> mode,
     Content |-> content, Linkname |-> linkname]

\* an entry with exactly as many segments as are stripped is not skipped
TarEntryStripsLess(fs, hdr, components) ==
    LET fileNames == Split(hdr.Name)
        path      == Join(SubSeq(fileNames, components + 1, Len(fileNames)))
    IN IF Len(fileNames) < components THEN FsResult(fs, "")
       ELSE CASE hdr.Typeflag = "dir" ->
                   LET r == MkdirAll(fs, path, ModePerm)
                   IN FsResult(r.fs, IF r.err # "" THEN "failed to create archived directory"
                                     ELSE "")
              [] hdr.Typeflag = "reg" ->
                   LET r == OpenFileAndCopy(fs, path, hdr.Mode, hdr.Content)
                   IN FsResult(r.fs, IF r.err # "" THEN "failed to create archived file"
                                     ELSE "")
              [] hdr.Typeflag = "symlink" ->
                   LET r == Symlink(fs, hdr.Linkname, path)
                   IN FsResult(r.fs, IF r.err # "" THEN "failed to extract symlink" ELSE "")
              [] OTHER -> FsResult(fs, "")

\* TarArchive.Decompress, lines 956-992: one header of the archive
TarEntry(fs, hdr, components) ==
    LET fileNames == Split(hdr.Name)
        path      == Join(SubSeq(fileNames, components + 1, Len(fileNames)))
    IN IF Len(fileNames) <= components THEN FsResult(fs, "")
       ELSE CASE hdr.Typeflag = "dir" ->
                   LET r == MkdirAll(fs, path, ModePerm)
                   IN FsResult(r.fs, IF r.err # "" THEN "failed to create archived directory"
                                     ELSE "")
              [] hdr.Typeflag = "reg" ->
                   LET r == OpenFileAndCopy(fs, path, hdr.Mode, hdr.Content)
                   IN FsResult(r.fs, IF r.err # "" THEN "failed to create archived file"
                                     ELSE "")
              [] hdr.Typeflag = "symlink" ->
                   LET r == Symlink(fs, hdr.Linkname, path)
                   IN FsResult(r.fs, IF r.err # "" THEN "failed to extract symlink" ELSE "")
              [] OTHER -> FsResult(fs, "")

\* ZipArchive.Decompress, lines 1070-1116: one file of the central directory
ZipEntry(fs, f) ==
    LET path == Join(Split(f.Name))
    IN CASE f.Typeflag = "dir" ->
                LET r == MkdirAll(fs, path, ModePerm)
                IN FsResult(r.fs, IF r.err # "" THEN "failed to unzip directory" ELSE "")
         [] f.Typeflag = "symlink" ->
                LET r == Symlink(fs, f.Content, path)
                IN FsResult(r.fs, IF r.err # "" THEN "failed to unzip symlink" ELSE "")
         [] OTHER ->
                LET d == MkdirAll(fs, Dir(path), ModePerm)
                    r == OpenFileAndCopy(d.fs, path, f.Mode, f.Content)
                IN IF d.err # ""
                   THEN FsResult(d.fs, "failed to unzip directory that was part of file path")
                   ELSE FsResult(r.fs, IF r.err # "" THEN "failed to unzip file" ELSE "")

(***************************************************************************)
(* postal.Service.Deliver: what it is given and what its collaborators     *)
(* return                                                                  *)
(***************************************************************************)
\* hex digests are sequences of hex digits
Sha(a, b) == <<a, b>>

ToLowerDigit(t) ==
    CASE t = "A" -> "a"
      [] t = "B" -> "b"
      [] OTHER   -> t

ToLower(s) == [i \in 1..Len(s) |-> ToLowerDigit(s[i])]

Artifact(format, headerOK, entries, end, sha) ==
    [format |-> format, headerOK |-> headerOK, entries |-> entries, end |-> end, sha |-> sha]

NoArtifact == Artifact("", FALSE, <<>>, "", <<>>)

\* the streams the transport may return.  end says what follows the last header:
\* "eof" (the archive ends), "corrupt" (the next header cannot be read), "read
\* error" (the archive ends and the rest of the stream cannot be read)
Artifacts ==
    { Artifact("gzip", TRUE,
               << Header(<<".", "/", "some-dir">>, "dir", "0755", <<>>, <<>>),
                  Header(<<".", "/", "some-dir", "/", "some-file">>, "reg", "0755",
                         <<"nested">>, <<>>),
                  Header(<<".", "/", "first">>, "reg", "0755", <<"first">>, <<>>),
                  Header(<<".", "/", "symlink">>, "symlink", "0777", <<>>,
                         <<".", "/", "first">>) >>,
               "eof", Sha("a", "1")),
      Artifact("gzip", TRUE, <<>>, "corrupt", Sha("b", "2")),
      Artifact("unknown", FALSE, <<>>, "eof", Sha("c", "3")),
      Artifact("gzip", TRUE,
               << Header(<<".", "/", "symlink">>, "symlink", "0777", <<>>, <<>>) >>,
               "eof", Sha("d", "4")),
      Artifact("tar", TRUE,
               << Header(<<".", "/", "first">>, "reg", "0644", <<"other">>, <<>>) >>,
               "corrupt", Sha("e", "5")),
      Artifact("tar", TRUE,
               << Header(<<".", "/", "second">>, "reg", "0644", <<"second">>, <<>>) >>,
               "read error", Sha("f", "6")),
      Artifact("zip", TRUE,
               << Header(<<"some-dir", "/", "third">>, "reg", "0644", <<"third">>, <<>>) >>,
               "eof", Sha("a", "7")),
      Artifact("xz", FALSE, <<>>, "eof", Sha("b", "8")) }

\* the expected checksums of the dependencies Deliver is given
Checksums == { Sha("a", "1"), Sha("A", "1"), Sha("b", "2"), <<"this is not a valid checksum">> }

Deliverable == { Dependency("some-entry", {"some-stack"}, "some-entry.tgz", sha, V3("1", "2", "3")) :
                 sha \in Checksums }

PlatformPaths == { <<"/", "platform">>, <<"/", "some-platform">> }

\* what FindDependencyMapping may return as the mapping: none, or this URI
MappingURIs == {"", "dependency-mapping-entry.tgz"}

Call(op, arg, result, err) == [op |-> op, arg |-> arg, result |-> result, err |-> err]

\* cargo.ValidatedReader.Valid: the hex digest of the bytes read against the checksum
\* the reader was made with, whatever the case of the letters
Valid(artifact, expected) ==
    IF artifact.end = "read error" THEN [ok |-> FALSE, err |-> "read error"]
    ELSE [ok |-> ToLower(artifact.sha) = ToLower(expected), err |-> ""]

\* vacation.NewArchive(reader).Decompress, up to the first header: the archive type
\* is taken from the stream; gzip and xz streams are unwrapped, a zip is read whole
OpenArchive(artifact) ==
    CASE artifact.format = "tar"  -> ""
      [] artifact.format = "gzip" ->
            IF artifact.headerOK THEN "" ELSE "failed to create gzip reader"
      [] artifact.format = "xz"   ->
            IF artifact.headerOK THEN "" ELSE "failed to create xz reader"
      [] artifact.format = "zip"  ->
            IF artifact.end = "read error" THEN "read error"
            ELSE IF artifact.end = "corrupt" THEN "failed to create zip reader"
            ELSE ""
      [] OTHER -> "unsupported archive type"

\* one header of the archive, by the type of the archive
DecompressEntry(artifact, fs, hdr) ==
    IF artifact.format = "zip" THEN ZipEntry(fs, hdr) ELSE TarEntry(fs, hdr, 0)

\* the mapping is looked up and never used
ApplyMappingNever(dep, dependencyMappingURI) == dep

\* lines 145-147: a mapping replaces the URI of the dependency
ApplyMapping(dep, dependencyMappingURI) ==
    IF dependencyMappingURI # "" THEN [dep EXCEPT !.URI = dependencyMappingURI] ELSE dep

(***************************************************************************)
(* fs.ChecksumCalculator.  A path is a sequence of characters; paths are   *)
(* compared as Go compares strings, byte by byte.                          *)
(***************************************************************************)
Ord(c) ==
    CASE c = "-" -> 45
      [] c = "/" -> 47
      [] c = "0" -> 48
      [] c = "7" -> 55
      [] c = "a" -> 97
      [] c = "b" -> 98
      [] c = "f" -> 102

\* the order of the sequences p and q, "/" ranked as slash
RECURSIVE LexLess(_, _, _)
LexLess(p, q, slash) ==
    IF q = <<>> THEN FALSE
    ELSE IF p = <<>> THEN TRUE
    ELSE LET a == IF Head(p) = "/" THEN slash ELSE Ord(Head(p))
             b == IF Head(q) = "/" THEN slash ELSE Ord(Head(q))
         IN IF a # b THEN a < b ELSE LexLess(Tail(p), Tail(q), slash)

\* p < q on strings
StringLess(p, q) == LexLess(p, q, 47)

\* filepath.Walk visits the names of a directory in lexical order, and what is
\* in a directory before the next name: the separator ranks before every byte
WalkLess(p, q) == LexLess(p, q, -1)

File(kind, content, readable) == [kind |-> kind, content |-> content, readable |-> readable]

EmptyTree == [q \in {} |-> File("regular", "", TRUE)]

IsPrefix(p, q) == Len(p) <= Len(q) /\ SubSeq(q, 1, Len(p)) = p

\* the files at the path p or in the directory p
Under(t, p) ==
    {q \in DOMAIN t : q = p \/ p = <<>> \/ IsPrefix(p \o <<"/">>, q)}

IsRegularFile(t, p) == p \in DOMAIN t

RECURSIVE InWalkOrder(_)
InWalkOrder(S) ==
    IF S = {} THEN <<>>
    ELSE LET first == CHOOSE x \in S : \A y \in S \ {x} : WalkLess(x, y)
         IN <<first>> \o InWalkOrder(S \ {first})

\* lines 85-96: the regular files under the directory, in the order of the walk
Walk(t, p) == InWalkOrder({q \in Under(t, p) : t[q].kind = "regular"})

\* sha256 of the bytes of a file, and of the digests written one after the other
\* (a digest is 32 bytes, so the digests written are the sequence of them)
Sha256(content) == [of |-> "bytes", sha256 |-> <<content>>]

Sha256OfDigests(digests) == [of |-> "digests", sha256 |-> digests]

\* hex.EncodeToString
EncodeToString(digest) == [hex |-> digest]

NoDigest == [of |-> "", sha256 |-> <<>>]

calculatedFile(path, digest, err) == [path |-> path, checksum |-> digest, err |-> err]

\* the *os.PathError of os.Open names the path
OpenError(path) ==
    CASE path = <<"a", "-", "b">> -> "open a-b: permission denied"
      [] path = <<"a", "/", "b">> -> "open a/b: permission denied"
      [] path = <<"b">>           -> "open b: permission denied"
      [] OTHER                    -> "open: permission denied"

\* lines 150-174: what a worker sends for a path
Checksumed(t, path) ==
    IF ~t[path].readable THEN calculatedFile(path, NoDigest, OpenError(path))
    ELSE calculatedFile(path, Sha256(t[path].content), "")

\* the results are left in the order they were pulled off the channel
ResultsLessNever(a, b) == FALSE

\* lines 141-143: the less function handed to sort.Slice
ResultsLess(a, b) == StringLess(a.path, b.path)

RECURSIVE InsertResult(_, _)
InsertResult(s, x) ==
    IF s # <<>> /\ ResultsLess(x, s[Len(s)])
    THEN InsertResult(SubSeq(s, 1, Len(s) - 1), x) \o <<s[Len(s)]>>
    ELSE s \o <<x>>

\* lines 141-143: sort.Slice on the results (an insertion sort below 12 elements)
RECURSIVE SortResults(_)
SortResults(s) ==
    IF s = <<>> THEN <<>>
    ELSE InsertResult(SortResults(SubSeq(s, 1, Len(s) - 1)), s[Len(s)])

Result(shasum, err) == [shasum |-> shasum, err |-> err]

\* the empty string Sum returns with an error
EmptyShasum == [hex |-> NoDigest]

NoResult == Result(EmptyShasum, "")

\* the results with an error are passed over and the others hashed
RECURSIVE SumResultsSkipsErrors(_, _)
SumResultsSkipsErrors(results, digests) ==
    IF results = <<>> THEN [shasum |-> EncodeToString(Sha256OfDigests(digests)), err |-> ""]
    ELSE IF Head(results).err # "" THEN SumResultsSkipsErrors(Tail(results), digests)
    ELSE SumResultsSkipsErrors(Tail(results),
                               Append(digests, Head(results).checksum.sha256[1]))

\* lines 102-114: the digests of the sorted results are written to one hash; the
\* first result with an error ends the call
RECURSIVE SumResults(_, _)
SumResults(results, digests) ==
    IF results = <<>> THEN Result(EncodeToString(Sha256OfDigests(digests)), "")
    ELSE IF Head(results).err # "" THEN Result(EmptyShasum, Head(results).err)
    ELSE SumResults(Tail(results), Append(digests, Head(results).checksum.sha256[1]))

\* lines 68-82: Sum of a regular file
SumFile(f) ==
    IF ~f.readable THEN Result(EmptyShasum, "permission denied")
    ELSE Result(EncodeToString(Sha256(f.content)), "")

\* fs.Copy(path, tempDir/name): the file, or every file of the directory, under name
Copied(t, path, name) ==
    [q \in {name \o SubSeq(r, Len(path) + 1, Len(r)) : r \in Under(t, path)} |->
        t[path \o SubSeq(q, Len(name) + 1, Len(q))]]

Merge(a, b) == [q \in DOMAIN a \cup DOMAIN b |-> IF q \in DOMAIN b THEN b[q] ELSE a[q]]


\* the paths of the model
TreePaths == { <<"a", "-", "b">>, <<"a", "/", "b">>, <<"b">> }

\* what Sum and SumMultiple are pointed at: the directory itself, a directory
\* in it, a file in it, a path that does not exist
SumPaths == { <<>>, <<"a">>, <<"a", "-", "b">>, <<"b">>, <<"f">> }

TreeFiles ==
    { File("regular", "x", TRUE), File("regular", "y", TRUE),
      File("regular", "x", FALSE), File("symlink", "x", TRUE) }

\* the names rand.Read may give
RandomNames == { <<"0">>, <<"7">>, <<"f">> }

NoArgs == [op |-> "", paths |-> <<>>, numCPU |-> 0, names |-> <<>>]

NoWorkers == [w \in {} |-> [state |-> "exited", path |-> <<>>]]

NoLast == [called |-> FALSE, paths |-> <<>>, out |-> NoResult]

EngineIdle ==
    /\ filesFromDir = <<>>
    /\ files = [queue |-> <<>>, put |-> 0, closed |-> FALSE]
    /\ calculatedFiles = <<>>
    /\ workers = NoWorkers
    /\ checksumResults = <<>>

SumIdle ==
    /\ tree = EmptyTree
    /\ sumPc = "idle"
    /\ sumArgs = NoArgs
    /\ scratch = EmptyTree
    /\ tempDir = FALSE
    /\ EngineIdle
    /\ sumOut = NoResult
    /\ lastMultiple = NoLast

(***************************************************************************)
(* The resolver as a state machine                                         *)
(***************************************************************************)
NoCall ==
    [called |-> FALSE, id |-> "", version |-> EmptyString, stack |-> "",
     out |-> Outcome("", NoDependency, "", EmptyString, <<>>)]

NoDefaults == [id \in Ids |-> EmptyString]

NoGiven == [dependency |-> NoDependency, platformPath |-> EmptyString]

\* no buildpack.toml entries yet, no call of Resolve
ResolveIdle ==
    /\ catalog = <<>>
    /\ defaultVersions = NoDefaults
    /\ malformed = FALSE
    /\ resolved = NoCall

\* an empty layer directory, no call of Deliver
DeliverIdle ==
    /\ pc = "idle"
    /\ given = NoGiven
    /\ deliverDep = NoDependency
    /\ bundle = NoArtifact
    /\ checksum = <<>>
    /\ next = 0
    /\ layer = EmptyDestination
    /\ layerBefore = EmptyDestination
    /\ calls = <<>>
    /\ returned = ""

NoArchive == [kind |-> "", components |-> 0, entries |-> <<>>, cut |-> 0]

\* an empty destination directory, no call of an archive's Decompress
VacationIdle ==
    /\ archive = NoArchive
    /\ destination = EmptyDestination
    /\ destinationBefore = EmptyDestination
    /\ position = 0
    /\ handles = {}
    /\ vacationPc = "idle"
    /\ vacationErr = ""

InitResolve == ResolveIdle /\ DeliverIdle /\ SumIdle /\ VacationIdle

\* the buildpack author adds a [[metadata.dependencies]] entry
AddDependency(d) ==
    /\ ~resolved.called
    /\ ~malformed
    /\ Len(catalog) < MaxCatalog
    /\ catalog' = Append(catalog, d)
    /\ UNCHANGED <<defaultVersions, malformed, resolved>>
    /\ UNCHANGED <<deliverVars, sumVars, vacationVars>>

\* the buildpack author declares a default version
SetDefaultVersion(id, v) ==
    /\ ~resolved.called
    /\ ~malformed
    /\ defaultVersions[id] = EmptyString
    /\ defaultVersions' = [defaultVersions EXCEPT ![id] = v]
    /\ UNCHANGED <<catalog, malformed, resolved>>
    /\ UNCHANGED <<deliverVars, sumVars, vacationVars>>

\* the file is overwritten with text that is not toml
WriteMalformed ==
    /\ ~resolved.called
    /\ ~malformed
    /\ malformed' = TRUE
    /\ catalog' = <<>>
    /\ defaultVersions' = NoDefaults
    /\ UNCHANGED resolved
    /\ UNCHANGED <<deliverVars, sumVars, vacationVars>>

ResolveCall(id, version, stack) ==
    /\ ~resolved.called
    /\ resolved' = [called |-> TRUE, id |-> id, version |-> version, stack |-> stack,
                    out |-> Resolve(id, version, stack)]
    /\ UNCHANGED <<catalog, defaultVersions, malformed>>
    /\ UNCHANGED <<deliverVars, sumVars, vacationVars>>

\* the caller takes the result; Resolve keeps no state between calls
ResolveReturn ==
    /\ resolved.called
    /\ resolved' = NoCall
    /\ UNCHANGED <<catalog, defaultVersions, malformed>>
    /\ UNCHANGED <<deliverVars, sumVars, vacationVars>>

NextResolve ==
    \/ \E d \in Entries : AddDependency(d)
    \/ \E id \in Ids, v \in DefaultStrings : SetDefaultVersion(id, v)
    \/ WriteMalformed
    \/ \E id \in Ids, version \in Requests, stack \in Stacks : ResolveCall(id, version, stack)
    \/ ResolveReturn

SpecResolve == InitResolve /\ [][NextResolve]_vars

(***************************************************************************)
(* Properties of Resolve                                                   *)
(***************************************************************************)
\* the constraint the last call asked for, as the semver library reads it
RequestedConstraint ==
    NewConstraint(RewritePessimistic(
        NormalizeVersion(resolved.version, defaultVersions[resolved.id])))

\* the catalog records with the requested id and stack, in catalog order
Filtered ==
    SelectSeq(catalog, LAMBDA d : d.ID = resolved.id /\ resolved.stack \in d.Stacks)

FilteredSet == {Filtered[i] : i \in 1..Len(Filtered)}

AllFilteredParse == \A d \in FilteredSet : NewVersion(d.Version).ok

Satisfying ==
    {d \in FilteredSet : NewVersion(d.Version).ok
                         /\ Check(RequestedConstraint, NewVersion(d.Version))}

ResolveRan == resolved.called /\ ~malformed /\ RequestedConstraint.ok

ReturnsMaximumOf(S) ==
    /\ resolved.out.err = ""
    /\ resolved.out.dependency \in S
    /\ \A d \in S : ~GreaterThan(NewVersion(d.Version),
                                 NewVersion(resolved.out.dependency.Version))

\* C1, as stated: whenever some record with the requested id and stack satisfies
\* the constraint, Resolve succeeds and returns such a record of maximum version.
C1_AsStated == (ResolveRan /\ Satisfying # {}) => ReturnsMaximumOf(Satisfying)

\* C1, amended: whenever every record with the requested id and stack has a version
\* that parses and some such record satisfies the constraint, Resolve succeeds and
\* returns a satisfying record that no other satisfying record exceeds in version.
C1_ReturnsMaximum ==
    (ResolveRan /\ AllFilteredParse /\ Satisfying # {}) => ReturnsMaximumOf(Satisfying)

\* two satisfying records of different versions, the lower one first in the catalog
C1_Witness ==
    /\ ResolveRan /\ AllFilteredParse
    /\ \E d \in Satisfying :
          /\ GreaterThan(NewVersion(resolved.out.dependency.Version), NewVersion(d.Version))
          /\ Filtered[1] = d
    /\ resolved.out.err = ""

\* C2: when no record with the requested id and stack satisfies the constraint and
\* all their versions parse, Resolve fails with the no-compatible-versions error,
\* whose list is the versions of exactly those records, in catalog order.
C2_SupportedVersions ==
    (ResolveRan /\ AllFilteredParse /\ Satisfying = {}) =>
        /\ resolved.out.err = "no compatible versions"
        /\ Len(resolved.out.supported) = Len(Filtered)
        /\ \A i \in 1..Len(Filtered) : resolved.out.supported[i] = Filtered[i].Version

\* two matching records listed in descending version order, and a record of
\* another id or stack that the list leaves out
C2_Witness ==
    /\ ResolveRan /\ AllFilteredParse /\ Satisfying = {}
    /\ resolved.out.err = "no compatible versions"
    /\ Len(catalog) > Len(Filtered)
    /\ Len(Filtered) >= 1

IsRelease(d) == NewVersion(d.Version).ok /\ NewVersion(d.Version).pre = ""

\* the range [lo, hi) of the claim, over the records with the requested id and stack
InRange(lo, hi) ==
    {d \in FilteredSet : /\ ~LessThan(NewVersion(d.Version), lo)
                         /\ LessThan(NewVersion(d.Version), hi)}

ReturnsMaximumInRange(lo, hi) ==
    IF InRange(lo, hi) = {}
    THEN resolved.out.err = "no compatible versions"
    ELSE ReturnsMaximumOf(InRange(lo, hi))

Major == 0..2

Minor == 0..2

DigitOf(n) == CHOOSE t \in Digits : DigitVal(t) = n

\* C10: `~> X.Y` selects the maximum version v with X.Y.0 <= v < (X+1).0.0 and
\* `~> X` the maximum v with X.0.0 <= v < (X+1).0.0, for every X >= 0; stated for
\* catalogs whose matching records are all release versions.
C10_PessimisticMinor ==
    (resolved.called /\ ~malformed /\ \A d \in FilteredSet : IsRelease(d)) =>
        /\ \A x \in Major, y \in Minor :
              resolved.version = <<"~>", " ", DigitOf(x), ".", DigitOf(y)>> =>
                  ReturnsMaximumInRange(Version(x, y, 0, ""), Version(x + 1, 0, 0, ""))
        /\ \A x \in Major :
              resolved.version = <<"~>", " ", DigitOf(x)>> =>
                  ReturnsMaximumInRange(Version(x, 0, 0, ""), Version(x + 1, 0, 0, ""))

Patch == 0..2

\* C11: `~> X.Y.Z` selects the maximum version v with X.Y.Z <= v < X.(Y+1).0, for
\* every X, Y and Z; stated for catalogs whose matching records are all release
\* versions.
C11_PessimisticPatch ==
    (resolved.called /\ ~malformed /\ \A d \in FilteredSet : IsRelease(d)) =>
        \A x \in Major, y \in Minor, z \in Patch :
            resolved.version = <<"~>", " ", DigitOf(x), ".", DigitOf(y), ".", DigitOf(z)>> =>
                ReturnsMaximumInRange(Version(x, y, z, ""), Version(x, y + 1, 0, ""))

\* the same for every request but `~> 0.0.0`: the tilde range of a version that
\* is not 0.0.0 is the range of the claim
TildeRangeAboveZero ==
    (resolved.called /\ ~malformed /\ \A d \in FilteredSet : IsRelease(d)) =>
        \A x \in Major, y \in Minor, z \in Patch :
            ( /\ resolved.version = <<"~>", " ", DigitOf(x), ".", DigitOf(y), ".", DigitOf(z)>>
              /\ x + y + z > 0 ) =>
                ReturnsMaximumInRange(Version(x, y, z, ""), Version(x, y + 1, 0, ""))

DeclaredDefault == defaultVersions[resolved.id]

RequestedDefault == resolved.called /\ resolved.version \in {EmptyString, DefaultString}

\* C12: with a default version D declared for the id, Resolve called with "" or
\* with "default" returns what Resolve called with D returns, record or error.
C12_DefaultIsDeclared ==
    (RequestedDefault /\ DeclaredDefault # EmptyString) =>
        resolved.out = Resolve(resolved.id, DeclaredDefault, resolved.stack)

\* the declared default rules out a release the catalog lists for the id and stack
C12_Witness ==
    /\ RequestedDefault /\ DeclaredDefault # EmptyString
    /\ ~malformed
    /\ \E d \in FilteredSet : IsRelease(d)
    /\ AllFilteredParse
    /\ resolved.out.err = "no compatible versions"
    /\ resolved.out.constraint = DeclaredDefault

\* C13: with no default version declared for the id, Resolve called with "" or with
\* "default" succeeds whenever some record has the requested id and stack, and
\* returns the record of highest version among them; stated for catalogs in
\* which every such record has a version that parses.
C13_NoDefaultMeansAny ==
    (RequestedDefault /\ ~malformed /\ DeclaredDefault = EmptyString
       /\ AllFilteredParse /\ FilteredSet # {}) =>
        ReturnsMaximumOf(FilteredSet)

\* the same over the release versions: the wildcard selects the highest release
WildcardSelectsHighestRelease ==
    (RequestedDefault /\ ~malformed /\ DeclaredDefault = EmptyString
       /\ AllFilteredParse /\ \E d \in FilteredSet : IsRelease(d)) =>
        ReturnsMaximumOf({d \in FilteredSet : IsRelease(d)})

SomeFilteredUnparsable == \E d \in FilteredSet : ~NewVersion(d.Version).ok

VersionSyntaxError ==
    /\ resolved.out.err = "Invalid Semantic Version"
    /\ resolved.out.dependency = NoDependency

\* C14, as stated: whenever a record with the requested id and stack has a version
\* that does not parse, Resolve fails with the version-syntax error and returns no
\* record.
C14_AsStated ==
    (resolved.called /\ SomeFilteredUnparsable) => VersionSyntaxError

\* C14, amended: whenever the requested constraint parses and a record with the
\* requested id and stack has a version that does not parse, Resolve fails with
\* the version-syntax error and returns no record, wherever that record is in
\* the catalog and whatever the other records are.
C14_StrictFail ==
    (ResolveRan /\ SomeFilteredUnparsable) => VersionSyntaxError

\* a record that satisfies the constraint comes first, the unparsable one after it
C14_Witness ==
    /\ ResolveRan
    /\ Len(Filtered) >= 2
    /\ Filtered[1] \in Satisfying
    /\ ~NewVersion(Filtered[2].Version).ok
    /\ VersionSyntaxError

NoCompatibleVersions == resolved.called /\ resolved.out.err = "no compatible versions"

\* C15: the no-compatible-versions error carries the constraint string as the
\* caller gave it to Resolve, whatever the requested version.
C15_CarriesRequested ==
    NoCompatibleVersions => resolved.out.constraint = resolved.version

\* the same for the requests that lines 65-89 leave as they are
PlainRequestCarried ==
    ( /\ NoCompatibleVersions
      /\ resolved.version \notin {EmptyString, DefaultString}
      /\ Count(resolved.version, "~>") = 0 ) =>
        resolved.out.constraint = resolved.version

\* the error of a call as a function of the catalog file and the arguments
DeterminedError ==
    IF malformed THEN "failed to parse buildpack.toml"
    ELSE IF ~RequestedConstraint.ok THEN "improper constraint"
    ELSE IF SomeFilteredUnparsable THEN "Invalid Semantic Version"
    ELSE IF Satisfying = {} THEN "no compatible versions"
    ELSE ""

\* the positions, among the records with the requested id and stack, of the
\* satisfying records that no satisfying record exceeds
MaximalPositions ==
    {i \in 1..Len(Filtered) :
        /\ Filtered[i] \in Satisfying
        /\ \A d \in Satisfying :
              ~GreaterThan(NewVersion(d.Version), NewVersion(Filtered[i].Version))}

\* the record of a successful call as a function of the catalog file and the
\* arguments: of the maximal records, the one listed first
DeterminedRecord ==
    Filtered[CHOOSE i \in MaximalPositions : \A j \in MaximalPositions : i <= j]

\* C16: the outcome of Resolve is a function of the catalog and of the id, version
\* and stack requested: the error is fixed by them, and so is the record, also
\* when the catalog lists a record twice or lists compatible records of equal
\* precedence that differ in URI or digest.
C16_OutcomeDetermined ==
    resolved.called =>
        /\ resolved.out.err = DeterminedError
        /\ resolved.out.err = "" => resolved.out.dependency = DeterminedRecord
        /\ resolved.out.err # "" => resolved.out.dependency = NoDependency

\* two compatible records of equal precedence and different URI, both maximal
C16_Witness ==
    /\ resolved.called
    /\ resolved.out.err = ""
    /\ \E i, j \in MaximalPositions :
          /\ i < j
          /\ Filtered[i].URI # Filtered[j].URI
          /\ Filtered[i].SHA256 # Filtered[j].SHA256
          /\ resolved.out.dependency = Filtered[i]

\* the requested version after lines 65-74
Normalized == NormalizeVersion(resolved.version, defaultVersions[resolved.id])

StartsPessimistic(version) == version # <<>> /\ Head(version) = "~>"

\* C28: the string handed to the constraint parser (the no-compatible-versions
\* error prints it) is the normalized version as it is when that does not
\* start with ~>, and the normalized version with only its leading ~> replaced
\* by ~ or ^ when it does.
C28_RewriteOnlyLeading ==
    NoCompatibleVersions =>
        IF StartsPessimistic(Normalized)
        THEN resolved.out.constraint \in { <<"~">> \o Tail(Normalized),
                                           <<"^">> \o Tail(Normalized) }
        ELSE resolved.out.constraint = Normalized

\* the versions that start with ~> and hold no other ~> are rewritten so
LeadingPessimisticRewritten ==
    NoCompatibleVersions /\ StartsPessimistic(Normalized) /\ Count(Normalized, "~>") = 1 =>
        resolved.out.constraint \in { <<"~">> \o Tail(Normalized),
                                      <<"^">> \o Tail(Normalized) }

\* the versions that hold no ~> are handed over as they are
PlainVersionUnchanged ==
    NoCompatibleVersions /\ Count(Normalized, "~>") = 0 =>
        resolved.out.constraint = Normalized

(***************************************************************************)
(* Deliver as a state machine: one step for each call Deliver makes to a   *)
(* collaborator, and one for each header Decompress reads                  *)
(***************************************************************************)
InitDeliver == ResolveIdle /\ DeliverIdle /\ SumIdle /\ VacationIdle

CnbPath == "some-cnb-path"

\* line 140: Deliver is called; the layer directory is as earlier calls left it
DeliverCall(d, platformPath) ==
    /\ pc \in {"idle", "returned"}
    /\ pc' = "lookup"
    /\ given' = [dependency |-> d, platformPath |-> platformPath]
    /\ deliverDep' = d
    /\ bundle' = NoArtifact
    /\ checksum' = <<>>
    /\ next' = 0
    /\ layerBefore' = layer
    /\ calls' = <<>>
    /\ returned' = ""
    /\ UNCHANGED layer
    /\ UNCHANGED <<resolveVars, sumVars, vacationVars>>

\* lines 177-179: Install is Deliver with the platform path /platform
InstallCall(d) == DeliverCall(d, <<"/", "platform">>)

\* the lookup error is dropped and the fetch goes on
LookupFailedIgnored ==
    /\ pc' = "fetch"
    /\ returned' = ""

\* lines 142-144
LookupFailed ==
    /\ pc' = "returned"
    /\ returned' = "failure checking out the bindings"

\* lines 141-147: the mapping resolver is asked; it fails, or returns a URI or ""
FindDependencyMapping(uri, failed) ==
    /\ pc = "lookup"
    /\ calls' = Append(calls,
                       Call("FindDependencyMapping",
                            [SHA256 |-> deliverDep.SHA256,
                             bindingPath |-> given.platformPath \o <<"/", "bindings">>],
                            IF failed THEN "" ELSE uri,
                            IF failed THEN "lookup failed" ELSE ""))
    /\ IF failed
       THEN LookupFailed /\ UNCHANGED deliverDep
       ELSE /\ deliverDep' = ApplyMapping(deliverDep, uri)
            /\ pc' = "fetch"
            /\ UNCHANGED returned
    /\ UNCHANGED <<given, bundle, checksum, next, layer, layerBefore>>
    /\ UNCHANGED <<resolveVars, sumVars, vacationVars>>

\* lines 149-155: the transport is asked; it fails, or returns a stream, which is
\* wrapped in a validated reader
Drop(artifact, failed) ==
    /\ pc = "fetch"
    /\ calls' = Append(calls,
                       Call("Drop", [root |-> CnbPath, uri |-> deliverDep.URI],
                            "", IF failed THEN "there was an error" ELSE ""))
    /\ IF failed
       THEN /\ pc' = "returned"
            /\ returned' = "failed to fetch dependency"
            /\ UNCHANGED <<bundle, checksum>>
       ELSE /\ pc' = "decompress"
            /\ bundle' = artifact
            /\ checksum' = deliverDep.SHA256
            /\ UNCHANGED returned
    /\ UNCHANGED <<given, deliverDep, next, layer, layerBefore>>
    /\ UNCHANGED <<resolveVars, sumVars, vacationVars>>

\* the error of Decompress is kept and the validity is checked all the same
DecompressFailedStillValidates(e) ==
    /\ pc' = "valid"
    /\ returned' = e
    /\ calls' = [calls EXCEPT ![Len(calls)].result = "done", ![Len(calls)].err = e]

\* lines 158-160
DecompressFailed(e) ==
    /\ pc' = "returned"
    /\ returned' = e
    /\ calls' = [calls EXCEPT ![Len(calls)].result = "done", ![Len(calls)].err = e]

\* line 157: Decompress starts: the archive is opened
Decompress ==
    /\ pc = "decompress"
    /\ LET e      == OpenArchive(bundle)
           called == Append(calls, Call("Decompress", [destination |-> "layerPath"],
                                        "running", ""))
       IN IF e # ""
          THEN /\ pc' = "returned"
               /\ returned' = e
               /\ calls' = [called EXCEPT ![Len(called)].result = "done",
                                          ![Len(called)].err = e]
               /\ UNCHANGED next
          ELSE /\ pc' = "extract"
               /\ next' = 1
               /\ calls' = called
               /\ UNCHANGED returned
    /\ UNCHANGED <<given, deliverDep, bundle, checksum, layer, layerBefore>>
    /\ UNCHANGED <<resolveVars, sumVars, vacationVars>>

\* line 157: Decompress goes on: the next header is read and written out, or the
\* archive ends
ExtractNext ==
    /\ pc = "extract"
    /\ IF next > Len(bundle.entries)
       THEN /\ IF bundle.end = "corrupt"
               THEN DecompressFailed("failed to read tar response")
               ELSE /\ pc' = "valid"
                    /\ calls' = [calls EXCEPT ![Len(calls)].result = "done"]
                    /\ UNCHANGED returned
            /\ UNCHANGED <<next, layer>>
       ELSE LET r == DecompressEntry(bundle, layer, bundle.entries[next])
            IN /\ layer' = r.fs
               /\ IF r.err # ""
                  THEN DecompressFailed(r.err) /\ UNCHANGED next
                  ELSE /\ next' = next + 1
                       /\ UNCHANGED <<pc, calls, returned>>
    /\ UNCHANGED <<given, deliverDep, bundle, checksum, layerBefore>>
    /\ UNCHANGED <<resolveVars, sumVars, vacationVars>>

\* a mismatch is not reported
DeliverResultIgnoresMismatch(v) ==
    IF v.err # "" THEN "failed to validate dependency" ELSE ""

\* lines 162-171: what Deliver returns once Valid has returned
DeliverResult(v) ==
    IF v.err # "" THEN "failed to validate dependency"
    ELSE IF ~v.ok THEN "checksum does not match"
    ELSE ""

\* the layer is put back as it was when the checksum does not match
LayerRolledBack(fs, before, v) == IF v.err = "" /\ ~v.ok THEN before ELSE fs

\* lines 162-171: nothing is done to the layer directory after Decompress
LayerAfterValid(fs, before, v) == fs

\* lines 162-171: the validity of the stream is checked
CheckValid ==
    /\ pc = "valid"
    /\ LET v == Valid(bundle, checksum)
       IN /\ calls' = Append(calls, Call("Valid", [checksum |-> checksum],
                                         IF v.ok THEN "true" ELSE "false", v.err))
          /\ returned' = DeliverResult(v)
          /\ layer' = LayerAfterValid(layer, layerBefore, v)
    /\ pc' = "returned"
    /\ UNCHANGED <<given, deliverDep, bundle, checksum, next, layerBefore>>
    /\ UNCHANGED <<resolveVars, sumVars, vacationVars>>

NextDeliver ==
    \/ \E d \in Deliverable, platformPath \in PlatformPaths : DeliverCall(d, platformPath)
    \/ \E d \in Deliverable : InstallCall(d)
    \/ \E uri \in MappingURIs, failed \in BOOLEAN : FindDependencyMapping(uri, failed)
    \/ \E artifact \in Artifacts, failed \in BOOLEAN : Drop(artifact, failed)
    \/ Decompress
    \/ ExtractNext
    \/ CheckValid

SpecDeliver == InitDeliver /\ [][NextDeliver]_vars

(***************************************************************************)
(* Properties of Deliver                                                   *)
(***************************************************************************)
CallOrder == <<"FindDependencyMapping", "Drop", "Decompress", "Valid">>

\* the calls made so far are the first calls of CallOrder, in that order
CallsInOrder ==
    /\ Len(calls) <= Len(CallOrder)
    /\ \A i \in 1..Len(calls) : calls[i].op = CallOrder[i]

LookupDone == Len(calls) >= 1

DropDone == Len(calls) >= 2

DecompressDone == Len(calls) >= 3 /\ calls[3].result = "done"

ValidDone == Len(calls) >= 4

DecompressSucceeded == DecompressDone /\ calls[3].err = ""

DecompressErrored == DecompressDone /\ calls[3].err # ""

DigestDiffers == ToLower(bundle.sha) # ToLower(given.dependency.SHA256)

\* what a header of the archive leaves at the destination
Present(fs, hdr) ==
    LET path == Join(Split(hdr.Name))
    IN /\ Exists(fs, path)
       /\ CASE hdr.Typeflag = "dir"     -> fs[path].kind = "dir"
            [] hdr.Typeflag = "symlink" ->
                   fs[path].kind = "symlink"
                   /\ fs[path].content = (IF bundle.format = "zip" THEN hdr.Content
                                          ELSE hdr.Linkname)
            [] OTHER -> fs[path].kind = "file" /\ fs[path].content = hdr.Content

AllExtracted ==
    /\ next = Len(bundle.entries) + 1
    /\ \A i \in 1..Len(bundle.entries) : Present(layer, bundle.entries[i])

\* C5: when the artifact decompresses and its digest is not the expected one,
\* Deliver returns the checksum-mismatch error, after the whole archive was
\* extracted, and everything extracted is in the layer directory at the return.
C5_MismatchAfterExtraction ==
    /\ (pc = "returned" /\ DecompressSucceeded /\ bundle.end # "read error" /\ DigestDiffers)
          => (returned = "checksum does not match" /\ ValidDone /\ AllExtracted)
    /\ (pc = "returned" /\ returned = "checksum does not match")
          => (DecompressSucceeded /\ AllExtracted)

C5_Witness ==
    /\ pc = "returned" /\ DecompressSucceeded /\ DigestDiffers
    /\ returned = "checksum does not match"
    /\ Len(bundle.entries) >= 2
    /\ layer # layerBefore

\* C6: when Decompress fails, Deliver returns its error at once and Valid is never
\* called, whether the digest is the expected one or not.
C6_DecompressErrorFirst ==
    (Len(calls) >= 3 /\ calls[3].err # "")
        => (pc = "returned" /\ returned = calls[3].err /\ Len(calls) = 3)

\* an archive that fails after it wrote something, with a digest that is not the
\* expected one
C6_Witness ==
    /\ pc = "returned" /\ DecompressErrored /\ DigestDiffers
    /\ layer # layerBefore

\* C7: when the lookup fails, Deliver returns an error, the transport is not called
\* and the layer directory is as it was; in every run the lookup comes before the
\* fetch, the fetch before decompression, decompression before the validity check,
\* and the layer directory is written by decompression alone.
C7_LookupFirst ==
    /\ CallsInOrder
    /\ (LookupDone /\ calls[1].err # "")
          => (pc = "returned" /\ returned # "" /\ Len(calls) = 1 /\ layer = layerBefore)
    /\ (Len(calls) < 3) => layer = layerBefore

\* a failed lookup over a layer directory that an earlier call has filled
C7_Witness ==
    /\ pc = "returned" /\ LookupDone /\ calls[1].err # ""
    /\ layer # EmptyDestination

\* C8: the transport is called with the mapping URI when the lookup returned one
\* and with the URI of the dependency otherwise; the checksum the stream is
\* validated against is the one of the dependency as given.
C8_MappingKeepsChecksum ==
    /\ DropDone => calls[2].arg.uri = (IF calls[1].result # "" THEN calls[1].result
                                       ELSE given.dependency.URI)
    /\ DropDone /\ calls[2].err = "" => checksum = given.dependency.SHA256
    /\ ValidDone => calls[4].arg.checksum = given.dependency.SHA256
    /\ deliverDep.SHA256 = given.dependency.SHA256

\* a stream fetched from a mapping URI and validated
C8_Witness ==
    /\ ValidDone
    /\ calls[1].result # ""
    /\ calls[2].arg.uri # given.dependency.URI

AllSucceeded ==
    /\ ValidDone
    /\ \A i \in 1..4 : calls[i].err = ""
    /\ calls[4].result = "true"
    /\ ~DigestDiffers

\* C9: Deliver returns nil exactly when the lookup, the fetch and the decompression
\* succeeded and the validity check found the digest to be the expected one.
C9_SuccessOnlyIfAllSucceed ==
    pc = "returned" => (returned = "" <=> AllSucceeded)

C9_Witness == pc = "returned" /\ returned = "" /\ layer # layerBefore

(***************************************************************************)
(* vacation as a state machine: a caller builds a tar archive (with the    *)
(* number of components to strip) or a zip archive over a stream and calls *)
(* Decompress on a destination directory, which is as earlier calls left   *)
(* it.  One step for the call and one for each turn of the loop.           *)
(***************************************************************************)
MaxEntries == 2

\* the entries an archive of the model is made of.  The target of a link is in
\* Linkname (tar) and is the content of the entry (zip)
VacationHeaders ==
    { Header(<<"a">>, "dir", "0700", <<>>, <<>>),
      Header(<<"a", "/", "f">>, "reg", "0644", <<"one">>, <<>>),
      Header(<<"l">>, "symlink", "0777", <<"f">>, <<"f">>),
      Header(<<"f">>, "reg", "0600", <<"two">>, <<>>),
      Header(<<".", "/", "a", "/", "f">>, "reg", "0644", <<"three">>, <<>>) }

\* the entries of an archive: different entries, in any order
EntryLists ==
    { s \in UNION { [1..n -> VacationHeaders] : n \in 1..MaxEntries } :
        \A i, j \in DOMAIN s : i # j => s[i] # s[j] }

\* lines 1020-1025: StripComponents sets the number of leading segments to strip
Components == 0..2

\* cut = 0: the stream is whole; cut = k: the stream ends inside entry k
Archive(kind, components, entries, cut) ==
    [kind |-> kind, components |-> components, entries |-> entries, cut |-> cut]

Archives ==
    { Archive("tar", n, s, k) : n \in Components, s \in EntryLists, k \in 0..1 }
    \cup { Archive("zip", 0, s, k) : s \in EntryLists, k \in 0..1 }

\* lines 956-962: the segments of the name, and the path that is left of it
Skipped(hdr, components) == Len(Split(hdr.Name)) <= components

StrippedPath(hdr, components) ==
    LET fileNames == Split(hdr.Name)
    IN Join(SubSeq(fileNames, components + 1, Len(fileNames)))

\* a call of Decompress(destination).  Lines 1057-1068: the zip reader is made
\* of the whole stream, and is not made of a stream that was cut
DecompressCall(a) ==
    /\ vacationPc = "idle"
    /\ archive' = a
    /\ destinationBefore' = destination
    /\ position' = 0
    /\ handles' = {}
    /\ IF a.kind = "zip" /\ a.cut # 0
       THEN vacationPc' = "returned" /\ vacationErr' = "failed to create zip reader"
       ELSE vacationPc' = "reading" /\ vacationErr' = ""
    /\ UNCHANGED destination
    /\ UNCHANGED <<resolveVars, deliverVars, sumVars>>

\* the loop goes on after an entry that failed
EntryFailedNever(err) == FALSE

\* the loop goes on after an entry unless the entry failed
EntryFailed(err) == err # ""

\* lines 947-995: one turn of the loop of TarArchive.Decompress: the next header
\* is read and the entry is written out, or the archive ends
TarNext ==
    /\ vacationPc = "reading"
    /\ archive.kind = "tar"
    /\ IF archive.cut # 0 /\ archive.cut <= position
       THEN \* lines 952-954: the stream ended early
            /\ vacationPc' = "returned"
            /\ vacationErr' = "failed to read tar response"
            /\ UNCHANGED <<destination, position, handles>>
       ELSE IF position >= Len(archive.entries)
       THEN \* lines 949-951 and 995: io.EOF
            /\ vacationPc' = "returned"
            /\ vacationErr' = ""
            /\ UNCHANGED <<destination, position, handles>>
       ELSE LET hdr  == archive.entries[position + 1]
                path == StrippedPath(hdr, archive.components)
                copyFails == /\ archive.cut = position + 1
                             /\ hdr.Typeflag = "reg"
                             /\ ~Skipped(hdr, archive.components)
                r == IF copyFails
                     THEN TarEntry(destination, [hdr EXCEPT !.Content = <<>>],
                                   archive.components)
                     ELSE TarEntry(destination, hdr, archive.components)
            IN /\ destination' = r.fs
               /\ position' = position + 1
               /\ IF EntryFailed(r.err)
                  THEN vacationPc' = "returned" /\ vacationErr' = r.err
                                                /\ UNCHANGED handles
                  ELSE IF copyFails
                  THEN \* lines 976-979: the file is open when the copy fails
                       /\ vacationPc' = "returned"
                       /\ vacationErr' = "unexpected EOF"
                       /\ handles' = handles \cup {path}
                  ELSE UNCHANGED <<vacationPc, vacationErr, handles>>
    /\ UNCHANGED <<archive, destinationBefore>>
    /\ UNCHANGED <<resolveVars, deliverVars, sumVars>>

\* lines 1070-1119: one turn of the loop of ZipArchive.Decompress.  The files
\* opened are closed by the deferred calls when Decompress returns
ZipNext ==
    /\ vacationPc = "reading"
    /\ archive.kind = "zip"
    /\ IF position >= Len(archive.entries)
       THEN /\ vacationPc' = "returned"
            /\ vacationErr' = ""
            /\ handles' = {}
            /\ UNCHANGED <<destination, position>>
       ELSE LET f == archive.entries[position + 1]
                r == ZipEntry(destination, f)
            IN /\ destination' = r.fs
               /\ position' = position + 1
               /\ IF EntryFailed(r.err)
                  THEN vacationPc' = "returned" /\ vacationErr' = r.err /\ handles' = {}
                  ELSE /\ handles' = IF f.Typeflag = "reg"
                                     THEN handles \cup {Join(Split(f.Name))}
                                     ELSE handles
                       /\ UNCHANGED <<vacationPc, vacationErr>>
    /\ UNCHANGED <<archive, destinationBefore>>
    /\ UNCHANGED <<resolveVars, deliverVars, sumVars>>

\* the entries of an archive written out one after the other, as the loops of
\* Decompress do: up to the first entry that fails
RECURSIVE WriteEntries(_, _, _, _)
WriteEntries(kind, components, fs, entries) ==
    IF entries = <<>> THEN FsResult(fs, "")
    ELSE LET r == IF kind = "zip" THEN ZipEntry(fs, Head(entries))
                  ELSE TarEntry(fs, Head(entries), components)
         IN IF EntryFailed(r.err) THEN r
            ELSE WriteEntries(kind, components, r.fs, Tail(entries))

\* the destination directory is empty, or as the extraction of a whole archive
\* into an empty directory left it
Destinations ==
    {EmptyDestination}
    \cup { WriteEntries(a.kind, a.components, EmptyDestination, a.entries).fs :
             a \in {b \in Archives : b.cut = 0} }

InitVacation ==
    /\ ResolveIdle /\ DeliverIdle /\ SumIdle
    /\ archive = NoArchive
    /\ destination \in Destinations
    /\ destinationBefore = destination
    /\ position = 0
    /\ handles = {}
    /\ vacationPc = "idle"
    /\ vacationErr = ""

NextVacation ==
    \/ \E a \in Archives : DecompressCall(a)
    \/ TarNext
    \/ ZipNext

SpecVacation == InitVacation /\ [][NextVacation]_vars

(***************************************************************************)
(* Properties of vacation                                                  *)
(***************************************************************************)
\* a turn of the tar loop that read an entry
TarEntryRead ==
    /\ vacationPc = "reading"
    /\ archive.kind = "tar"
    /\ position' = position + 1

\* the entry the loop reads next
NextHeader == archive.entries[position + 1]

\* what an entry leaves at a path once it was written without error
WrittenAt(fs, hdr, path) ==
    /\ Exists(fs, path)
    /\ CASE hdr.Typeflag = "dir"     -> fs[path].kind = "dir"
         [] hdr.Typeflag = "reg"     -> fs[path].kind = "file" /\ fs[path].content = hdr.Content
         [] hdr.Typeflag = "symlink" -> fs[path].kind = "symlink"
                                        /\ fs[path].content = hdr.Linkname
         [] OTHER -> FALSE

\* C21: with a strip count n, an entry of the tar archive whose name has n
\* segments or fewer is skipped (the destination is not touched, there is no
\* error and the loop goes on), and an entry with more than n segments that is
\* written without error is at the destination joined with the segments after
\* the first n.
C21_StripComponents ==
    [][TarEntryRead =>
         LET hdr      == NextHeader
             n        == archive.components
             segments == Split(hdr.Name)
         IN IF Len(segments) <= n
            THEN destination' = destination /\ vacationErr' = "" /\ vacationPc' = "reading"
            ELSE vacationErr' = "" =>
                 WrittenAt(destination', hdr, Join(SubSeq(segments, n + 1, Len(segments))))
      ]_vars

\* with n = 2 an entry two segments deep was skipped and an entry three segments
\* deep was written under its last segment
C21_Witness ==
    /\ vacationPc = "returned" /\ vacationErr = ""
    /\ archive.kind = "tar" /\ archive.components = 2
    /\ destinationBefore = EmptyDestination
    /\ \E i, j \in DOMAIN archive.entries :
          /\ Len(Split(archive.entries[i].Name)) = 2
          /\ Len(Split(archive.entries[j].Name)) = 3
          /\ WrittenAt(destination, archive.entries[j], <<"f">>)
    /\ DOMAIN destination = {<<>>, <<"f">>}

\* with n = 1 the entry two segments deep is written under its last segment
StrippedByOne ==
    /\ vacationPc = "returned" /\ vacationErr = ""
    /\ archive.kind = "tar" /\ archive.components = 1
    /\ destinationBefore = EmptyDestination
    /\ \E i \in DOMAIN archive.entries :
          /\ Len(Split(archive.entries[i].Name)) = 2
          /\ WrittenAt(destination, archive.entries[i], <<"f">>)

\* the path an entry of the archive is written at
EntryPath(a, hdr) ==
    IF a.kind = "zip" THEN Join(Split(hdr.Name)) ELSE StrippedPath(hdr, a.components)

\* the entry is written out, not passed over
Extracted(a, hdr) == a.kind = "zip" \/ ~Skipped(hdr, a.components)

\* the paths the entries of the archive are written at
PathsIn(a) ==
    { EntryPath(a, a.entries[i]) : i \in {j \in DOMAIN a.entries : Extracted(a, a.entries[j])} }

\* no later entry of the archive is written at the path of entry i
LastAtItsPath(a, i) ==
    \A j \in DOMAIN a.entries :
        j > i /\ Extracted(a, a.entries[j])
          => EntryPath(a, a.entries[j]) # EntryPath(a, a.entries[i])

\* Decompress has returned from extracting a whole archive, which extracts
\* without error into an empty directory, over a destination that an earlier
\* extraction had filled
Reextraction ==
    /\ vacationPc = "returned"
    /\ archive.cut = 0
    /\ destinationBefore # EmptyDestination
    /\ WriteEntries(archive.kind, archive.components, EmptyDestination, archive.entries).err = ""

\* every regular file of the archive is at its path with the content of the archive
FilesReplaced ==
    \A i \in DOMAIN archive.entries :
        LET hdr == archive.entries[i]
        IN hdr.Typeflag = "reg" /\ Extracted(archive, hdr) /\ LastAtItsPath(archive, i)
             => WrittenAt(destination, hdr, EntryPath(archive, hdr))

\* every file the destination held that the archive does not hold is as it was
AbsentFilesUnchanged ==
    \A p \in DOMAIN destinationBefore :
        destinationBefore[p].kind = "file" /\ p \notin PathsIn(archive)
          => Exists(destination, p) /\ destination[p] = destinationBefore[p]

\* C22: re-extracting an archive over an existing destination succeeds,
\* replaces every regular file that is in the new archive and leaves every file
\* of the destination that is not in the new archive unchanged.
C22_Reextraction ==
    Reextraction => vacationErr = "" /\ FilesReplaced /\ AbsentFilesUnchanged

\* the archive holds no link
NoLinkIn(a) == \A i \in DOMAIN a.entries : a.entries[i].Typeflag # "symlink"

\* the same holds of the archives without a link
ReextractionWithoutLinks == Reextraction /\ NoLinkIn(archive) => vacationErr = ""

\* whatever Decompress returns, the files that the archive does not hold are
\* left as they were
ReextractionFrame == vacationPc = "returned" => AbsentFilesUnchanged

\* a re-extraction over files that are replaced and files that are left
ReextractionReplaces ==
    /\ Reextraction /\ vacationErr = "" /\ FilesReplaced
    /\ \E p \in DOMAIN destinationBefore :
          destinationBefore[p].kind = "file" /\ p \notin PathsIn(archive)
    /\ \E p \in DOMAIN destinationBefore :
          /\ destinationBefore[p].kind = "file" /\ p \in PathsIn(archive)
          /\ destination[p].content # destinationBefore[p].content

\* C23: a directory entry of a tar archive that creates its directory creates
\* it with the permission bits declared in the header of the entry.
C23_DirectoryMode ==
    [][TarEntryRead /\ NextHeader.Typeflag = "dir"
         /\ ~Skipped(NextHeader, archive.components)
         /\ ~Exists(destination, StrippedPath(NextHeader, archive.components))
         /\ vacationErr' = ""
         => LET path == StrippedPath(NextHeader, archive.components)
            IN IsDir(destination', path) /\ destination'[path].mode = NextHeader.Mode
      ]_vars

\* the directories that tar entries create are created with os.ModePerm
DirectoryModePerm ==
    [][TarEntryRead /\ NextHeader.Typeflag = "dir"
         /\ ~Skipped(NextHeader, archive.components)
         /\ ~Exists(destination, StrippedPath(NextHeader, archive.components))
         /\ vacationErr' = ""
         => LET path == StrippedPath(NextHeader, archive.components)
            IN IsDir(destination', path) /\ destination'[path].mode = ModePerm
      ]_vars

\* what TarArchive.Decompress with strip count 0 makes of the entries of the
\* archive and the destination that ZipArchive.Decompress was called on
AsTar == WriteEntries("tar", 0, destinationBefore, archive.entries)

ZipReturned == vacationPc = "returned" /\ archive.kind = "zip" /\ archive.cut = 0

\* C24: on the same entries and the same initial destination, zip extraction
\* leaves the destination that tar extraction with strip count 0 leaves, and
\* succeeds or fails as it does.
C24_ZipAsTar ==
    ZipReturned => destination = AsTar.fs /\ (vacationErr = "" <=> AsTar.err = "")

\* zip extraction does what tar extraction does when tar extraction succeeds
ZipAsTarWhereTarSucceeds ==
    ZipReturned /\ AsTar.err = "" => destination = AsTar.fs /\ vacationErr = ""

\* zip extraction fails only where tar extraction fails
ZipFailsWhereTarFails ==
    ZipReturned /\ vacationErr # "" => AsTar.err # ""

\* zip extraction has written a file whose directory no entry had created
ZipCreatedParent ==
    /\ ZipReturned /\ vacationErr = ""
    /\ AsTar.err = "failed to create archived file"
    /\ destination # AsTar.fs

\* the tar loop reads a regular-file entry whose directory does not exist
FileWithoutParent ==
    /\ TarEntryRead
    /\ NextHeader.Typeflag = "reg"
    /\ ~Skipped(NextHeader, archive.components)
    /\ ~Exists(destination, Dir(StrippedPath(NextHeader, archive.components)))

\* C25: a regular-file entry of a tar archive whose parent directory does not
\* exist when the entry is reached fails with the create-file error, extraction
\* stops, and the directory is not created.
C25_NoParentCreated ==
    [][FileWithoutParent =>
         /\ vacationErr' = "failed to create archived file"
         /\ vacationPc' = "returned"
         /\ destination' = destination
      ]_vars

\* Decompress has returned the create-file error for an entry whose directory
\* is missing, after an earlier entry was written
C25_Witness ==
    /\ vacationPc = "returned" /\ archive.kind = "tar"
    /\ vacationErr = "failed to create archived file"
    /\ position = 2
    /\ destination # destinationBefore
    /\ ~Exists(destination, Dir(StrippedPath(archive.entries[position], archive.components)))

\* one entry of the archive written out
WriteEntry(a, fs, hdr) ==
    IF a.kind = "zip" THEN ZipEntry(fs, hdr) ELSE TarEntry(fs, hdr, a.components)

\* the destination after the first k entries of the archive were written out
\* in the order of the archive
RECURSIVE AfterEntries(_, _, _)
AfterEntries(a, fs, k) ==
    IF k = 0 THEN fs
    ELSE WriteEntry(a, AfterEntries(a, fs, k - 1), a.entries[k]).fs

\* the entries that fail when they are written out after the entries before them
Failing(a, fs) ==
    { k \in DOMAIN a.entries :
        WriteEntry(a, AfterEntries(a, fs, k - 1), a.entries[k]).err # "" }

Least(S) == CHOOSE k \in S : \A j \in S : k <= j

\* C26: the entries are written in the order of the archive, and Decompress
\* stops at the first entry that fails: when entry k fails, Decompress returns
\* an error, the destination holds the effects of the entries 1..k-1 (and what
\* entry k did before it failed), no entry after k was read, and nothing that
\* was there before or was written by the entries 1..k-1 is removed.
C26_StopsAtFirstFailure ==
    vacationPc = "returned" /\ archive.cut = 0 /\ Failing(archive, destinationBefore) # {}
      => LET k == Least(Failing(archive, destinationBefore))
         IN /\ vacationErr # ""
            /\ position = k
            /\ destination = AfterEntries(archive, destinationBefore, k)
            /\ DOMAIN destinationBefore \subseteq DOMAIN destination
            /\ DOMAIN AfterEntries(archive, destinationBefore, k - 1) \subseteq DOMAIN destination

\* the second entry failed after the first was written
C26_Witness ==
    /\ vacationPc = "returned" /\ archive.cut = 0 /\ vacationErr # ""
    /\ Failing(archive, destinationBefore) = {2}
    /\ position = 2
    /\ destination # destinationBefore

\* the first entry failed and the second, which would not have, was not written
LaterEntryNotWritten ==
    /\ vacationPc = "returned" /\ archive.cut = 0 /\ vacationErr # ""
    /\ position = 1 /\ Len(archive.entries) = 2
    /\ destination = destinationBefore
    /\ WriteEntry(archive, destination, archive.entries[2]).err = ""

\* a stream that was cut is not read past the cut
StopsAtCut ==
    vacationPc = "returned" /\ archive.cut # 0
      => vacationErr # "" /\ position <= archive.cut

\* C27: when Decompress returns, on whatever path, every destination file it
\* opened has been closed.
C27_HandlesReleased == vacationPc = "returned" => handles = {}

\* the files are closed on every return but the one of a failed copy
ReleasedUnlessCopyFailed ==
    vacationPc = "returned" /\ vacationErr # "unexpected EOF" => handles = {}

\* the zip path holds the files it wrote open until Decompress returns
ZipHoldsUntilReturn ==
    vacationPc = "reading" /\ archive.kind = "zip" /\ Cardinality(handles) = 2

(***************************************************************************)
(* The checksum calculator as a state machine: the caller of Sum or        *)
(* SumMultiple, and the fileChecksumer goroutines                          *)
(***************************************************************************)
AllExited == \A w \in DOMAIN workers : workers[w].state = "exited"

Exists2(t, p) == p = <<>> \/ Under(t, p) # {}

\* a file is written, or made unreadable, or replaced by a link, between calls
WriteFile(p, f) ==
    /\ sumPc = "idle"
    /\ tree' = [q \in DOMAIN tree \cup {p} |-> IF q = p THEN f ELSE tree[q]]
    /\ lastMultiple' = NoLast
    /\ UNCHANGED <<sumPc, sumArgs, scratch, tempDir, filesFromDir, files,
                   calculatedFiles, workers, checksumResults, sumOut>>
    /\ UNCHANGED <<resolveVars, deliverVars, vacationVars>>

\* lines 117-126: the channels are made and the workers are started
StartEngine(t, p, numCPU) ==
    /\ filesFromDir' = Walk(t, p)
    /\ files' = [queue |-> <<>>, put |-> 0, closed |-> FALSE]
    /\ calculatedFiles' = <<>>
    /\ workers' = [w \in 1..numCPU |-> [state |-> "ready", path |-> <<>>]]
    /\ checksumResults' = <<>>

\* lines 62-100: Sum is called: the path does not exist, or is a file, or is a
\* directory, which is walked
SumCall(p, numCPU) ==
    /\ sumPc = "idle"
    /\ AllExited
    /\ sumArgs' = [op |-> "Sum", paths |-> <<p>>, numCPU |-> numCPU, names |-> <<>>]
    /\ IF ~Exists2(tree, p)
       THEN /\ sumPc' = "done"
            /\ sumOut' = Result(EmptyShasum, "no such file or directory")
            /\ UNCHANGED <<filesFromDir, files, calculatedFiles, workers, checksumResults>>
       ELSE IF IsRegularFile(tree, p)
       THEN /\ sumPc' = "done"
            /\ sumOut' = SumFile(tree[p])
            /\ UNCHANGED <<filesFromDir, files, calculatedFiles, workers, checksumResults>>
       ELSE /\ sumPc' = "enqueue"
            /\ sumOut' = NoResult
            /\ StartEngine(tree, p, numCPU)
    /\ UNCHANGED <<tree, scratch, tempDir, lastMultiple>>
    /\ UNCHANGED <<resolveVars, deliverVars, vacationVars>>

\* lines 120-121: both channels are made with room for numFiles values
Capacity == Len(filesFromDir)

\* lines 129-133: the next path is put on the channel (put counts them), which
\* blocks while the channel is full; after the last the channel is closed
CanEnqueue ==
    /\ sumPc = "enqueue"
    /\ files.put < Len(filesFromDir) => Len(files.queue) < Capacity

\* the channel of paths is left open after the last path
EnqueueNeverCloses ==
    /\ CanEnqueue
    /\ IF files.put < Len(filesFromDir)
       THEN /\ files' = [files EXCEPT !.queue = Append(@, filesFromDir[files.put + 1]),
                                      !.put = @ + 1]
            /\ UNCHANGED sumPc
       ELSE /\ sumPc' = "collect"
            /\ UNCHANGED files
    /\ UNCHANGED <<tree, sumArgs, scratch, tempDir, filesFromDir, calculatedFiles,
                   workers, checksumResults, sumOut, lastMultiple>>
    /\ UNCHANGED <<resolveVars, deliverVars, vacationVars>>

Enqueue ==
    /\ CanEnqueue
    /\ IF files.put < Len(filesFromDir)
       THEN /\ files' = [files EXCEPT !.queue = Append(@, filesFromDir[files.put + 1]),
                                      !.put = @ + 1]
            /\ UNCHANGED sumPc
       ELSE /\ files' = [files EXCEPT !.closed = TRUE]
            /\ sumPc' = "collect"
    /\ UNCHANGED <<tree, sumArgs, scratch, tempDir, filesFromDir, calculatedFiles,
                   workers, checksumResults, sumOut, lastMultiple>>
    /\ UNCHANGED <<resolveVars, deliverVars, vacationVars>>

\* the directory the workers read: the temporary directory under SumMultiple
Target == IF sumArgs.op = "SumMultiple" THEN scratch ELSE tree

\* line 149: a worker takes the next path off the channel
CanTake(w) == workers[w].state = "ready" /\ files.queue # <<>>

WorkerTake(w) ==
    /\ CanTake(w)
    /\ workers' = [workers EXCEPT ![w] = [state |-> "busy", path |-> Head(files.queue)]]
    /\ files' = [files EXCEPT !.queue = Tail(@)]
    /\ UNCHANGED <<tree, sumPc, sumArgs, scratch, tempDir, filesFromDir, calculatedFiles,
                   checksumResults, sumOut, lastMultiple>>
    /\ UNCHANGED <<resolveVars, deliverVars, vacationVars>>

\* lines 155-174: a send blocks while the results channel is full
CanSend(w) == workers[w].state = "busy" /\ Len(calculatedFiles) < Capacity

\* a worker that could not hash the file sends nothing and takes the next path
WorkerSendDropsErrors(w) ==
    /\ workers[w].state = "busy"
    /\ calculatedFiles' = IF Checksumed(Target, workers[w].path).err # ""
                          THEN calculatedFiles
                          ELSE Append(calculatedFiles, Checksumed(Target, workers[w].path))
    /\ workers' = [workers EXCEPT ![w] = [state |-> "ready", path |-> <<>>]]
    /\ UNCHANGED <<tree, sumPc, sumArgs, scratch, tempDir, filesFromDir, files,
                   checksumResults, sumOut, lastMultiple>>
    /\ UNCHANGED <<resolveVars, deliverVars, vacationVars>>

\* lines 150-174: the worker hashes the file and sends the result, or the error;
\* the send blocks while the channel is full
WorkerSend(w) ==
    /\ CanSend(w)
    /\ calculatedFiles' = Append(calculatedFiles, Checksumed(Target, workers[w].path))
    /\ workers' = [workers EXCEPT ![w] = [state |-> "ready", path |-> <<>>]]
    /\ UNCHANGED <<tree, sumPc, sumArgs, scratch, tempDir, filesFromDir, files,
                   checksumResults, sumOut, lastMultiple>>
    /\ UNCHANGED <<resolveVars, deliverVars, vacationVars>>

\* line 149: the channel is closed and empty: the worker returns
WorkerExit(w) ==
    /\ workers[w].state = "ready"
    /\ files.queue = <<>>
    /\ files.closed
    /\ workers' = [workers EXCEPT ![w] = [state |-> "exited", path |-> <<>>]]
    /\ UNCHANGED <<tree, sumPc, sumArgs, scratch, tempDir, filesFromDir, files,
                   calculatedFiles, checksumResults, sumOut, lastMultiple>>
    /\ UNCHANGED <<resolveVars, deliverVars, vacationVars>>

\* lines 136-138: a result is pulled off the channel
CanCollect ==
    /\ sumPc = "collect"
    /\ Len(checksumResults) < Len(filesFromDir)
    /\ calculatedFiles # <<>>

Collect ==
    /\ CanCollect
    /\ checksumResults' = Append(checksumResults, Head(calculatedFiles))
    /\ calculatedFiles' = Tail(calculatedFiles)
    /\ UNCHANGED <<tree, sumPc, sumArgs, scratch, tempDir, filesFromDir, files,
                   workers, sumOut, lastMultiple>>
    /\ UNCHANGED <<resolveVars, deliverVars, vacationVars>>

\* lines 101-114 and 140-145: the results are sorted and their digests hashed
CanFinish == sumPc = "collect" /\ Len(checksumResults) = Len(filesFromDir)

Finish ==
    /\ CanFinish
    /\ sumOut' = SumResults(SortResults(checksumResults), <<>>)
    /\ sumPc' = IF sumArgs.op = "SumMultiple" THEN "cleanup" ELSE "done"
    /\ UNCHANGED <<tree, sumArgs, scratch, tempDir, filesFromDir, files,
                   calculatedFiles, workers, checksumResults, lastMultiple>>
    /\ UNCHANGED <<resolveVars, deliverVars, vacationVars>>

\* lines 34-38: SumMultiple is called and makes its temporary directory
SumMultipleCall(paths, numCPU, failed) ==
    /\ sumPc = "idle"
    /\ AllExited
    /\ sumArgs' = [op |-> "SumMultiple", paths |-> paths, numCPU |-> numCPU, names |-> <<>>]
    /\ IF failed
       THEN /\ sumPc' = "done"
            /\ sumOut' = Result(EmptyShasum, "failed to create temp directory")
            /\ UNCHANGED tempDir
       ELSE /\ sumPc' = "staging"
            /\ sumOut' = NoResult
            /\ tempDir' = TRUE
    /\ scratch' = EmptyTree
    /\ UNCHANGED <<tree, filesFromDir, files, calculatedFiles, workers, checksumResults,
                   lastMultiple>>
    /\ UNCHANGED <<resolveVars, deliverVars, vacationVars>>

CanCopy(t, path) == Exists2(t, path) /\ \A q \in Under(t, path) : t[q].readable

\* lines 46-57: the next path is copied into the temporary directory under a
\* random name (one not drawn before)
Stage(name, failed) ==
    /\ sumPc = "staging"
    /\ Len(sumArgs.names) < Len(sumArgs.paths)
    /\ \A i \in 1..Len(sumArgs.names) : sumArgs.names[i] # name
    /\ LET path == sumArgs.paths[Len(sumArgs.names) + 1]
       IN IF failed
          THEN /\ sumOut' = Result(EmptyShasum, "failed to generate random filename")
               /\ sumPc' = "cleanup"
               /\ UNCHANGED <<scratch, sumArgs>>
          ELSE IF ~CanCopy(tree, path)
          THEN /\ sumOut' = Result(EmptyShasum, "failed to calculate checksum")
               /\ sumPc' = "cleanup"
               /\ UNCHANGED <<scratch, sumArgs>>
          ELSE /\ scratch' = Merge(scratch, Copied(tree, path, name))
               /\ sumArgs' = [sumArgs EXCEPT !.names = Append(@, name)]
               /\ UNCHANGED <<sumOut, sumPc>>
    /\ UNCHANGED <<tree, tempDir, filesFromDir, files, calculatedFiles, workers,
                   checksumResults, lastMultiple>>
    /\ UNCHANGED <<resolveVars, deliverVars, vacationVars>>

\* line 58: Sum of the temporary directory
SumTempDir ==
    /\ sumPc = "staging"
    /\ Len(sumArgs.names) = Len(sumArgs.paths)
    /\ sumPc' = "enqueue"
    /\ StartEngine(scratch, <<>>, sumArgs.numCPU)
    /\ UNCHANGED <<tree, sumArgs, scratch, tempDir, sumOut, lastMultiple>>
    /\ UNCHANGED <<resolveVars, deliverVars, vacationVars>>

\* the temporary directory is removed only when no error is being returned
RemoveAllOnSuccessOnly(failed) ==
    /\ sumPc = "cleanup"
    /\ sumPc' = "done"
    /\ IF sumOut.err # ""
       THEN UNCHANGED <<scratch, tempDir, sumOut>>
       ELSE IF failed
       THEN /\ sumOut' = [sumOut EXCEPT !.err = "unlinkat: permission denied"]
            /\ UNCHANGED <<scratch, tempDir>>
       ELSE /\ scratch' = EmptyTree
            /\ tempDir' = FALSE
            /\ UNCHANGED sumOut
    /\ UNCHANGED <<tree, sumArgs, filesFromDir, files, calculatedFiles, workers,
                   checksumResults, lastMultiple>>
    /\ UNCHANGED <<resolveVars, deliverVars, vacationVars>>

\* lines 40-44: the deferred RemoveAll; its error replaces the error returned
RemoveAll(failed) ==
    /\ sumPc = "cleanup"
    /\ sumPc' = "done"
    /\ IF failed
       THEN /\ sumOut' = [sumOut EXCEPT !.err = "unlinkat: permission denied"]
            /\ UNCHANGED <<scratch, tempDir>>
       ELSE /\ scratch' = EmptyTree
            /\ tempDir' = FALSE
            /\ UNCHANGED sumOut
    /\ UNCHANGED <<tree, sumArgs, filesFromDir, files, calculatedFiles, workers,
                   checksumResults, lastMultiple>>
    /\ UNCHANGED <<resolveVars, deliverVars, vacationVars>>

\* the caller has the result and the workers have returned; what a SumMultiple
\* returned is remembered
SumReturn ==
    /\ sumPc = "done"
    /\ AllExited
    /\ sumPc' = "idle"
    /\ lastMultiple' = IF sumArgs.op = "SumMultiple"
                       THEN [called |-> TRUE, paths |-> sumArgs.paths, out |-> sumOut]
                       ELSE lastMultiple
    /\ sumArgs' = NoArgs
    /\ sumOut' = NoResult
    /\ tempDir' = FALSE
    /\ scratch' = EmptyTree
    /\ filesFromDir' = <<>>
    /\ files' = [queue |-> <<>>, put |-> 0, closed |-> FALSE]
    /\ calculatedFiles' = <<>>
    /\ workers' = NoWorkers
    /\ checksumResults' = <<>>
    /\ UNCHANGED tree
    /\ UNCHANGED <<resolveVars, deliverVars, vacationVars>>

InitSum == ResolveIdle /\ DeliverIdle /\ SumIdle /\ VacationIdle

NumCPU == 1..MaxWorkers

NextSum ==
    \/ \E p \in TreePaths, f \in TreeFiles : WriteFile(p, f)
    \/ \E p \in SumPaths, n \in NumCPU : SumCall(p, n)
    \/ Enqueue
    \/ \E w \in DOMAIN workers : WorkerTake(w)
    \/ \E w \in DOMAIN workers : WorkerSend(w)
    \/ \E w \in DOMAIN workers : WorkerExit(w)
    \/ Collect
    \/ Finish
    \/ SumReturn

SpecSum == InitSum /\ [][NextSum]_vars

\* a step that feeds the workers (lines 129-133) or a step of a worker
FeedOrWork ==
    \/ Enqueue
    \/ \E w \in DOMAIN workers : WorkerTake(w) \/ WorkerSend(w) \/ WorkerExit(w)

\* the Go scheduler runs a goroutine whenever one can run: while the loop that
\* feeds the workers or a fileChecksumer can take a step, one of them does.
\* Nothing is assumed of the steps that collect the results.
FairEngine == WF_vars(FeedOrWork)

SpecSumFair == InitSum /\ [][NextSum]_vars /\ FairEngine

\* a directory with a file, a directory of one file and an unreadable file
StagedFrom ==
    [q \in TreePaths |->
        CASE q = <<"a", "-", "b">> -> File("regular", "x", TRUE)
          [] q = <<"a", "/", "b">> -> File("regular", "y", TRUE)
          [] OTHER                 -> File("regular", "x", FALSE)]

InitSumMultiple ==
    /\ ResolveIdle /\ DeliverIdle /\ VacationIdle
    /\ tree = StagedFrom
    /\ sumPc = "idle"
    /\ sumArgs = NoArgs
    /\ scratch = EmptyTree
    /\ tempDir = FALSE
    /\ EngineIdle
    /\ sumOut = NoResult
    /\ lastMultiple = NoLast

\* the argument lists of SumMultiple
PathLists ==
    UNION { [1..n -> {<<"a", "-", "b">>, <<"a">>, <<"b">>}] : n \in 1..MaxPaths }

\* SumMultiple is called, and called again with the same paths
NextSumMultiple ==
    \/ \E paths \in PathLists, n \in NumCPU, failed \in BOOLEAN :
          /\ lastMultiple.called => lastMultiple.paths = paths
          /\ SumMultipleCall(paths, n, failed)
    \/ \E name \in RandomNames, failed \in BOOLEAN : Stage(name, failed)
    \/ SumTempDir
    \/ Enqueue
    \/ \E w \in DOMAIN workers : WorkerTake(w)
    \/ \E w \in DOMAIN workers : WorkerSend(w)
    \/ \E w \in DOMAIN workers : WorkerExit(w)
    \/ Collect
    \/ Finish
    \/ \E failed \in BOOLEAN : RemoveAll(failed)
    \/ SumReturn

SpecSumMultiple == InitSumMultiple /\ [][NextSumMultiple]_vars

(***************************************************************************)
(* Properties of the checksum calculator                                   *)
(***************************************************************************)
SumOfDirectory ==
    /\ sumPc = "done"
    /\ sumArgs.op = "Sum"
    /\ Exists2(tree, sumArgs.paths[1])
    /\ ~IsRegularFile(tree, sumArgs.paths[1])

RegularUnder(t, p) == {q \in Under(t, p) : t[q].kind = "regular"}

AllReadable(t, p) == \A q \in RegularUnder(t, p) : t[q].readable

\* the paths of S in ascending order as strings
RECURSIVE Ascending(_)
Ascending(S) ==
    IF S = {} THEN <<>>
    ELSE LET least == CHOOSE x \in S : \A y \in S \ {x} : StringLess(x, y)
         IN <<least>> \o Ascending(S \ {least})

\* the digest of a directory as a function of the tree alone: the sha256 of the
\* files' digests, the files taken in ascending order of their paths
DigestOfTree(t, p) ==
    LET order == Ascending(RegularUnder(t, p))
    IN EncodeToString(Sha256OfDigests([i \in 1..Len(order) |-> t[order[i]].content]))

\* C3: for a directory whose files can all be read, Sum returns a digest fixed by
\* the tree alone, whichever worker took which path, in whichever order the
\* results arrived, and however many workers there were.
C3_SumDeterministic ==
    (SumOfDirectory /\ AllReadable(tree, sumArgs.paths[1]))
        => sumOut = Result(DigestOfTree(tree, sumArgs.paths[1]), "")

PathsOf(results) == [i \in 1..Len(results) |-> results[i].path]

\* three files hashed by two workers or more, the results pulled off the channel
\* neither in the order of the walk nor in ascending order
C3_Witness ==
    /\ SumOfDirectory
    /\ AllReadable(tree, sumArgs.paths[1])
    /\ sumArgs.numCPU >= 2
    /\ Len(checksumResults) >= 3
    /\ PathsOf(checksumResults) # filesFromDir
    /\ checksumResults # SortResults(checksumResults)
    /\ sumOut.err = ""

\* C4: SumMultiple called twice with the same paths, the contents unchanged and
\* both calls succeeding, returns the same digest both times, whatever names
\* were drawn for the copies.
C4_IndependentOfNames ==
    ( /\ sumPc = "done"
      /\ sumArgs.op = "SumMultiple"
      /\ lastMultiple.called
      /\ lastMultiple.paths = sumArgs.paths
      /\ lastMultiple.out.err = ""
      /\ sumOut.err = "" )
        => sumOut.shasum = lastMultiple.out.shasum

EngineRan == SumOfDirectory

Busy == {w \in DOMAIN workers : workers[w].state = "busy"}

\* the caller of getParallelChecksums or one of its workers can take a step
EngineCanStep ==
    \/ CanEnqueue
    \/ CanCollect
    \/ CanFinish
    \/ \E w \in DOMAIN workers : CanTake(w)
    \/ \E w \in DOMAIN workers : CanSend(w)

\* every path put on the files channel is in exactly one place: on the channel,
\* with a worker, on the results channel, or among the results collected
OneResultPerPath ==
    Len(files.queue) + Cardinality(Busy) + Len(calculatedFiles) + Len(checksumResults)
        = files.put

Occurrences(results, path) == Cardinality({i \in 1..Len(results) : results[i].path = path})

\* C17: while getParallelChecksums runs, some step of it or of a worker is always
\* possible, no send on a channel ever blocks, and no path is lost or doubled;
\* when it has returned, the results are as many as the paths submitted, one for
\* each, whether or not the file could be hashed.
C17_CollectsAll ==
    /\ sumPc \in {"enqueue", "collect"} =>
          /\ EngineCanStep
          /\ OneResultPerPath
          /\ \A w \in Busy : CanSend(w)
          /\ sumPc = "enqueue" => CanEnqueue
    /\ EngineRan =>
          /\ Len(checksumResults) = Len(filesFromDir)
          /\ \A i \in 1..Len(filesFromDir) :
                Occurrences(checksumResults, filesFromDir[i]) = 1

\* one worker, two files or more: the file taken first could not be hashed, and
\* the same worker went on to hash the next
C17_Witness ==
    /\ EngineRan
    /\ sumArgs.numCPU = 1
    /\ Len(checksumResults) >= 2
    /\ checksumResults[1].err # ""
    /\ checksumResults[2].err = ""
    /\ AllExited

FailedResults(results) == {i \in 1..Len(results) : results[i].err # ""}

\* the failed result pulled off the results channel before every other
FirstCollectedError ==
    checksumResults[CHOOSE i \in FailedResults(checksumResults) :
                        \A j \in FailedResults(checksumResults) : i <= j].err

\* the failed result whose path comes before the path of every other
LeastPathError ==
    LET failed == {checksumResults[i] : i \in FailedResults(checksumResults)}
    IN (CHOOSE r \in failed : \A q \in failed \ {r} : StringLess(r.path, q.path)).err

SeveralFailed == EngineRan /\ Cardinality(FailedResults(checksumResults)) >= 2

SomeUnreadable(t, p) == \E q \in RegularUnder(t, p) : ~t[q].readable

\* C19: when a file under the directory could not be hashed, Sum returns an error
\* and the empty string, however many files were hashed and in whatever order
\* the results came.
C19_NoPartialDigest ==
    (SumOfDirectory /\ SomeUnreadable(tree, sumArgs.paths[1])) =>
        /\ sumOut.err # ""
        /\ sumOut.shasum = EmptyShasum

\* a file was hashed and its path comes before the path of the file that failed:
\* its digest had been written to the hash when the error was met
C19_Witness ==
    /\ SumOfDirectory
    /\ SomeUnreadable(tree, sumArgs.paths[1])
    /\ \E i, j \in 1..Len(checksumResults) :
          /\ checksumResults[i].err = ""
          /\ checksumResults[j].err # ""
          /\ StringLess(checksumResults[i].path, checksumResults[j].path)
    /\ sumOut.shasum = EmptyShasum

SumMultipleReturned == sumPc = "done" /\ sumArgs.op = "SumMultiple"

ScratchRemoved == ~tempDir /\ scratch = EmptyTree

SumMultipleExits ==
    /\ SumMultipleReturned => sumOut.err \in
          {"", "failed to create temp directory", "failed to generate random filename",
           "failed to calculate checksum", "unlinkat: permission denied"}
    /\ (SumMultipleReturned /\ sumOut.err = "failed to create temp directory") =>
          sumArgs.names = <<>> /\ ScratchRemoved

\* C30: SumMultiple never returns a digest that is not empty together with an
\* error.
C30_NoDigestWithError ==
    SumMultipleReturned /\ sumOut.err # "" => sumOut.shasum = EmptyShasum

\* the digest is empty with every error but the one of the failed removal
NoDigestUnlessRemovalFailed ==
    SumMultipleReturned /\ sumOut.err \notin {"", "unlinkat: permission denied"}
      => sumOut.shasum = EmptyShasum

\* worker w was started and has not returned
Running(w) == w \in DOMAIN workers /\ workers[w].state # "exited"

Exited(w) == w \in DOMAIN workers /\ workers[w].state = "exited"

\* C29: every worker that getParallelChecksums starts returns in the end,
\* whatever the number of files and whether or not files fail to hash.
C29_WorkersTerminate == \A w \in NumCPU : Running(w) ~> Exited(w)

\* Sum has returned an error for a directory with fewer files than workers, and
\* every worker has returned
C29_Witness ==
    /\ sumPc = "done" /\ SumOfDirectory
    /\ sumOut.err # ""
    /\ Cardinality(DOMAIN workers) > Len(filesFromDir)
    /\ Len(filesFromDir) > 0
    /\ AllExited

\* Sum has returned for a directory without files, and every worker has returned
NoFilesAllExited ==
    /\ sumPc = "done" /\ SumOfDirectory
    /\ filesFromDir = <<>>
    /\ workers # NoWorkers /\ AllExited

\* Sum returns while a worker has not yet returned
ReturnedBeforeWorkers ==
    /\ sumPc = "done" /\ SumOfDirectory
    /\ ~AllExited

====
